---------------------------- MODULE Spec2Model ----------------------------
(***************************************************************************)
(* State-machine model of the idilia source plugin: the UDP port pool      *)
(* (ports_pool.c), the socket factory (socket_utils.c), the session        *)
(* controller and plugin facade (idilia_source.c), the RTSP-side closure   *)
(* (gst_utils.c) and the RTSP server glue (rtsp_server.c,                  *)
(* queue_callbacks.c).                                                     *)
(*                                                                         *)
(* The specifications share the variables:                                 *)
(*   PoolSpec     the port pool on its own, driven by get / return calls;  *)
(*   FactorySpec  the socket factory and the port pool on their own,       *)
(*                driven by open_server / open_client / close calls;       *)
(*   Spec         the plugin: host threads, the message handler, the RTSP  *)
(*                thread and its work queue;                               *)
(*   ProvisionSpec  Spec on a port range that may be too narrow, with bind *)
(*                and connect failures;                                    *)
(*   MessageSpec  Spec with more handle_message calls;                     *)
(*   ClientSpec   Spec with the RTSP clients of the server.                *)
(***************************************************************************)
EXTENDS Integers, Sequences, FiniteSets, TLC

(***************************************************************************)
(* Bounds of the model (not program constants).                            *)
(***************************************************************************)
\* width udp_max_port - udp_min_port of the configured range in Spec
PoolWidth == 7
\* g_random_int_range may return any free port of its interval; for a range
\* wider than MaxFactoryWidth the model follows the DrawChoices lowest of them
DrawChoices == 1
\* bind()/connect() failures the environment injects in FactorySpec
MaxSockFailures == 1
\* socket slots of FactorySpec
NumSlots == 3
\* largest udp_max_port - udp_min_port that FactorySpec starts with
MaxFactoryWidth == 2
\* factory calls FactorySpec makes
MaxFactoryCalls == 6
\* pool calls PoolSpec makes
MaxPoolCalls == 5

\* the first port of the configured range ("udp_port_range" of the config)
udp_min_port == 1

(***************************************************************************)
(* ports_pool.c                                                            *)
(*                                                                         *)
(* pp is [min, max, list, count].  The GList is kept as a set: the code    *)
(* only appends a port after g_list_find failed, so it holds no duplicate, *)
(* and only find / remove are applied to it.                               *)
(***************************************************************************)
ports_pool_init(min, max) ==
    [min |-> min, max |-> max, list |-> {}, count |-> 0]

\* the lowest n elements of a finite set of integers
RECURSIVE Lowest(_, _)
Lowest(S, n) ==
    IF n = 0 \/ S = {} THEN {}
    ELSE LET m == CHOOSE x \in S : \A y \in S : x <= y
         IN {m} \cup Lowest(S \ {m}, n - 1)

\* g_random_int_range(begin, end): a value of [begin, end); with
\* end <= begin the g_return_val_if_fail guard returns begin
g_random_int_range(begin, end) ==
    IF end > begin THEN begin .. (end - 1) ELSE {begin}

\* The ports the do/while loop of ports_pool_get can leave with: the draws
\* that are not in the list (none: the loop never ends).
RandomFreePorts(pp) ==
    LET free == g_random_int_range(pp.min, pp.max) \ pp.list
    IN IF pp.max - pp.min <= MaxFactoryWidth THEN free
       ELSE Lowest(free, DrawChoices)

\* ports_pool_get: the set of possible results [pp, port, hang]
ports_pool_get(pp, port) ==
    IF pp.count >= pp.max - pp.min
    THEN {[pp |-> pp, port |-> 0, hang |-> FALSE]}
    ELSE IF port >= pp.min /\ port <= pp.max
    THEN IF port \in pp.list
         THEN {[pp |-> pp, port |-> 0, hang |-> FALSE]}
         ELSE {[pp |-> [pp EXCEPT !.list = @ \cup {port}, !.count = @ + 1],
                port |-> port, hang |-> FALSE]}
    ELSE IF RandomFreePorts(pp) = {}
    THEN {[pp |-> pp, port |-> 0, hang |-> TRUE]}
    ELSE {[pp |-> [pp EXCEPT !.list = @ \cup {p}, !.count = @ + 1],
           port |-> p, hang |-> FALSE] : p \in RandomFreePorts(pp)}

ports_pool_return(pp, port) ==
    [pp EXCEPT !.list = @ \ {port}, !.count = @ - 1]

(***************************************************************************)
(* socket_utils.c                                                          *)
(*                                                                         *)
(* A janus_source_socket is [port, open, is_client, source]; NoSock is the *)
(* NULL pointer.  The result of a call is                                  *)
(*   [pp, sck, res, fails] with res one of                                 *)
(*     "TRUE" / "FALSE"  the gboolean the call returns,                    *)
(*     "abort"           g_assert(port) failed (the build keeps asserts),  *)
(*     "hang"            ports_pool_get never returned.                    *)
(* fails is the number of bind/connect failures the environment may still  *)
(* inject; tried is the sequence of ports the passes of the loop bound or   *)
(* connected to, in order.                                                 *)
(***************************************************************************)
NoSock == [port |-> 0, open |-> FALSE, is_client |-> FALSE, source |-> FALSE,
           null |-> TRUE]

NewSock == [port |-> 0, open |-> TRUE, is_client |-> FALSE, source |-> FALSE,
            null |-> FALSE]

socket_utils_close_socket(pp, sck) ==
    [pp  |-> ports_pool_return(pp, sck.port),
     sck |-> [sck EXCEPT !.open = FALSE, !.source = FALSE]]

\* one pass of the do/while loop and what follows it; result is the value
\* of `result' left by the previous pass (TRUE before the first)
RECURSIVE CreateLoop(_, _, _, _, _, _, _)
CreateLoop(pp, sck, is_client, req_port, result, fails, tried) ==
    LET gets == IF req_port = 0 THEN ports_pool_get(pp, 0)
                ELSE {[pp |-> pp, port |-> req_port, hang |-> FALSE]}
        After(g) ==
            IF g.hang
            THEN {[pp |-> g.pp, sck |-> sck, res |-> "hang", fails |-> fails,
                   tried |-> tried]}
            ELSE IF g.port = 0
            THEN \* break: result keeps its value
                 IF result
                 THEN {[pp |-> g.pp, sck |-> [sck EXCEPT !.port = 0],
                        res |-> "abort", fails |-> fails, tried |-> tried]}
                 ELSE LET c == socket_utils_close_socket(g.pp, sck)
                      IN {[pp |-> c.pp, sck |-> c.sck, res |-> "FALSE",
                           fails |-> fails, tried |-> tried]}
            ELSE LET s1 == [sck EXCEPT !.is_client = is_client]
                 IN \* bind / connect succeeds
                    {[pp |-> g.pp, sck |-> [s1 EXCEPT !.port = g.port],
                      res |-> "TRUE", fails |-> fails,
                      tried |-> Append(tried, g.port)]}
                    \cup
                    \* bind / connect fails: the port goes back, next pass
                    (IF fails > 0
                     THEN CreateLoop(ports_pool_return(g.pp, g.port), s1,
                                     is_client, req_port, FALSE, fails - 1,
                                     Append(tried, g.port))
                     ELSE {})
    IN UNION {After(g) : g \in gets}

socket_utils_create_socket(pp, is_client, req_port, fails) ==
    CreateLoop(pp, NewSock, is_client, req_port, TRUE, fails, <<>>)

socket_utils_create_client_socket(pp, port_to_connect, fails) ==
    socket_utils_create_socket(pp, TRUE, port_to_connect, fails)

socket_utils_create_server_socket(pp, fails) ==
    socket_utils_create_socket(pp, FALSE, 0, fails)

(***************************************************************************)
(* State.                                                                  *)
(***************************************************************************)
VARIABLES
    pp,               \* the process-wide ports_pool (socket_utils.c: pp)
    sockFails,        \* bind/connect failures the environment may still inject
    proc,             \* "running", "aborted" (g_assert / NULL dereference),
                      \* "hung" (a loop that never ends), "ub" (use of freed memory)
    fsock,            \* FactorySpec: the caller's janus_source_socket slots
    ret,              \* FactorySpec: what the last factory call returned;
                      \* SdpSpec: the SDP under negotiation
    ncalls,           \* FactorySpec: factory calls made so far;
                      \* SdpSpec: rewrites made so far
    sess,             \* handle -> janus_source_session (handle->plugin_handle)
    sessions,         \* the sessions hash table (its keys)
    old_sessions,     \* the lazy-free list
    cbd,              \* the pipeline_callback_data_t objects ever allocated
    messages,         \* the message handler's GAsyncQueue
    rtsp_async_queue, \* the RTSP work queue (QueueEventData.session)
    rtsp,             \* the RTSP thread: where it is in the closure
    nsetup,           \* handle -> setup_media calls that queued a closure
    nmsg,             \* handle_message calls made so far
    mounts,           \* the RTSP mount points: path -> factory
    server_signals,   \* "client-connected" handlers connected on the server
    factory_signal,   \* factory -> its "media-configure" handler is connected
    host,             \* the gateway threads that are inside a plugin callback
    events,           \* what gateway->push_event was called with, in order
    http,             \* requests sent to the registry: request -> how many
    sent,             \* handle -> datagrams sent on the session's client sockets
    relayed,          \* the REMBs gateway->relay_rtcp was given, in order: the
                      \* handle and the bitrate janus_rtcp_remb was called with
    error,            \* handle -> *error after the last create_session or
                      \* destroy_session call (the caller passes it as 0)
    mutators,         \* the threads that have mutated the RTSP server
    rtsp_clients,     \* the GstRTSPClient objects of the server
    media,            \* factory -> the shared GstRTSPMedia it has created
    socket_log,       \* context -> socket name -> was it opened, how often
                      \* was it closed by the plugin and by the pipeline
    removal,          \* what the last remove_mountpoint call did, in order
    now,              \* janus_get_monotonic_time(), in seconds
    initialized,      \* the flag janus_source_init sets
    stopping,         \* the flag janus_source_destroy sets
    thread,           \* plugin thread -> where it is
    shutdown          \* the steps janus_source_destroy has done, in order

poolVars    == <<pp, sockFails, proc>>
factoryVars == <<fsock, ret, ncalls>>
sessVars    == <<sess, sessions, old_sessions, cbd>>
queueVars   == <<messages, rtsp_async_queue, rtsp, nsetup, nmsg>>
rtspVars    == <<mounts, server_signals, factory_signal, mutators, rtsp_clients,
                 media, socket_log, removal>>
outVars     == <<events, http, sent, relayed, error>>
lifeVars    == <<now, initialized, stopping, thread, shutdown>>
vars == <<pp, sockFails, proc, fsock, ret, ncalls, sess, sessions, old_sessions, cbd,
          messages, rtsp_async_queue, rtsp, nsetup, nmsg, mounts, server_signals,
          factory_signal, host, events, http, sent, relayed, error,
          mutators,
          rtsp_clients, media, socket_log, removal, now, initialized, stopping,
          thread, shutdown>>

(***************************************************************************)
(* Bounds and value sets of the plugin model.                              *)
(***************************************************************************)
\* plugin handles the gateway creates sessions on
NumHandles == 1
\* gateway threads that may be inside a plugin callback at the same time
NumHostThreads == 2
\* setup_media calls the gateway makes on one handle
MaxSetups == 1
\* setup_media calls on one handle in ResetupSpec, and with it the pipeline
\* contexts one session can be given
MaxResetups == 2
\* width of the configured range in ResetupSpec: two provisionings bind
\* twelve server sockets
ResetupWidth == 13
\* messages the gateway hands to handle_message
MaxMessages == 1
\* length of the event log that is kept
MaxEvents == 3
\* datagrams relayed per session
MaxPackets == 1
\* largest value the hangingup counter is followed to
MaxHangingup == 2
\* requests of one kind sent to the registry
MaxHttp == 2
\* handle_message calls the gateway makes in MessageSpec
MaxQueued == 2
\* RTSP clients that connect to the server in ClientSpec
NumClients == 1
\* requests one RTSP client sends
MaxRequests == 3

Handles == 1 .. NumHandles
HostThreads == 1 .. NumHostThreads
CbdIds == 1 .. (NumHandles * MaxResetups)
Slots == 1 .. NumSlots
RtspClients == 1 .. NumClients

\* the values of a char* that holds a stream id: NULL or a string
Ids == {"cam1", "cam2"}
IdVals == {"null"} \cup Ids

\* names of the sockets the closure stores in session->sockets and in
\* callback_data->sockets, in the order they are created
ProvisionSteps == <<
    [tbl |-> "cbd",  name |-> "video_rtp_srv",      peer |-> ""],
    [tbl |-> "sess", name |-> "video_rtp_cli",      peer |-> "video_rtp_srv"],
    [tbl |-> "cbd",  name |-> "video_rtcp_rcv_srv", peer |-> ""],
    [tbl |-> "sess", name |-> "video_rtcp_rcv_cli", peer |-> "video_rtcp_rcv_srv"],
    [tbl |-> "sess", name |-> "video_rtcp_snd_srv", peer |-> ""],
    [tbl |-> "cbd",  name |-> "audio_rtp_srv",      peer |-> ""],
    [tbl |-> "sess", name |-> "audio_rtp_cli",      peer |-> "audio_rtp_srv"],
    [tbl |-> "cbd",  name |-> "audio_rtcp_rcv_srv", peer |-> ""],
    [tbl |-> "sess", name |-> "audio_rtcp_rcv_cli", peer |-> "audio_rtcp_rcv_srv"],
    [tbl |-> "sess", name |-> "audio_rtcp_snd_srv", peer |-> ""] >>

TableNames(tbl) ==
    {ProvisionSteps[i].name :
        i \in {j \in 1 .. Len(ProvisionSteps) : ProvisionSteps[j].tbl = tbl}}

SessSockNames == TableNames("sess")
CbdSockNames == TableNames("cbd")

\* an empty GHashTable of sockets: every lookup yields NULL
EmptySessSockets == [n \in SessSockNames |-> NoSock]
EmptyCbdSockets == [n \in CbdSockNames |-> NoSock]

\* handle->plugin_handle == NULL
NoSession ==
    [mem |-> "none", audio_active |-> FALSE, video_active |-> FALSE,
     bitrate |-> 0, hangingup |-> 0, destroyed |-> 0, id |-> "null",
     db_entry_session_id |-> "null", rtsp_url |-> "null",
     sockets_null |-> TRUE, sockets |-> EmptySessSockets, callback_data |-> 0,
     codec |-> [video |-> "INVALID", audio |-> "INVALID"],
     codec_pt |-> [video |-> -1, audio |-> -1], slowlink_count |-> 0]

\* a pipeline_callback_data_t that was not allocated yet; launch is the
\* launch line of the factory made with it, <<>> for NULL
NoCbd ==
    [st |-> "unalloc", session |-> 0, id |-> "null", rtsp_url |-> "null",
     sockets |-> EmptyCbdSockets, id_media_configure_cb |-> 0,
     id_client_connected_cb |-> 0, id_rtsp_media_target_state_cb |-> 0,
     clients_list |-> <<>>, launch |-> <<>>]

\* a GstRTSPClient nobody has connected as:
\*   st        "none", "open" (connected) or "closed"
\*   handlers  the contexts whose pause-request / setup-request handlers are
\*             connected on the client
\*   refs      the references the plugin holds on the object
\*   session   the path of the media of the client's RTSP session, "none"
\*             for no session; factory is the factory of that media
\*   state     the RTSP state: "init", "ready" or "playing"
\*   active    the client did SETUP and neither PAUSE nor TEARDOWN since
\*   nreq      the requests the client has sent
NoClient ==
    [st |-> "none", handlers |-> {}, refs |-> 0, session |-> "none",
     factory |-> 0, state |-> "init", active |-> FALSE, nreq |-> 0]

\* a factory that has created no media: the udpsrc elements of a new
\* pipeline have no socket set and close-socket at its default, TRUE.
\*   target_state  the context whose handler is connected to the
\*                 target-state signal of the media, 0 for none
\*   injections    the times the sockets were set on the udpsrc elements
NoMedia ==
    [prepared |-> FALSE, socket |-> {}, close_socket |-> TRUE,
     target_state |-> 0, injections |-> 0]

AllSockNames == SessSockNames \cup CbdSockNames

NoSocketLog ==
    [n \in AllSockNames |-> [opened |-> FALSE, closes |-> 0, pipeline |-> 0]]

\* the threads janus_source_init starts, each inside its loop
ThreadsUp ==
    [handler |-> "loop", rtsp |-> "running", keepalive |-> "loop",
     watchdog |-> "loop"]

IdleHost == [pc |-> "idle", h |-> 0]
IdleRtsp == [pc |-> "idle", h |-> 0, c |-> 0, resp |-> "none"]
NoRet == [op |-> "none", res |-> "none", tried |-> <<>>]

\* curl_request(handle, url, body, method, ...): url is the configured URL
\* ("status" for status_service_url, "keepalive" for keepalive_service_url),
\* id what is appended to it after a "/" ("null" for nothing, "pid" for the
\* process id) and body what the request carries ("pid" for the process id
\* and the interval)
Request(method, url, id, body) ==
    [method |-> method, url |-> url, id |-> id, body |-> body]

\* the closure's POST of the RTSP URL, the DELETE of close_session, the
\* POST of janus_source_keepalive and the DELETE of
\* janus_source_remove_pid_from_registry
StatusPost == Request("POST", "status", "null", "rtsp_url")
StatusDelete(id) == Request("DELETE", "status", id, "{}")
KeepalivePost == Request("POST", "keepalive", "null", "pid")
RemovePid == Request("DELETE", "keepalive", "null", "{}")

\* the registry requests the plugin makes
HttpRequests ==
    {StatusPost, KeepalivePost, RemovePid,
     Request("DELETE", "keepalive", "pid", "{}")}
    \cup {StatusDelete(i) : i \in {"null", "db1"}}

\* the state of everything but the pool after janus_source_init and the
\* start of the handler and RTSP threads
PluginInit ==
    /\ proc = "running"
    /\ sess = [h \in Handles |-> NoSession]
    /\ sessions = {}
    /\ old_sessions = <<>>
    /\ cbd = [c \in CbdIds |-> NoCbd]
    /\ messages = <<>>
    /\ rtsp_async_queue = <<>>
    /\ rtsp = IdleRtsp
    /\ nsetup = [h \in Handles |-> 0]
    /\ nmsg = 0
    /\ mounts = [p \in IdVals |-> 0]
    /\ server_signals = {}
    /\ factory_signal = [c \in CbdIds |-> FALSE]
    /\ host = [t \in HostThreads |-> IdleHost]
    /\ events = <<>>
    /\ http = [r \in HttpRequests |-> 0]
    /\ sent = [h \in Handles |-> 0]
    /\ relayed = <<>>
    /\ error = [h \in Handles |-> 0]
    /\ mutators = {}
    /\ rtsp_clients = [k \in RtspClients |-> NoClient]
    /\ media = [c \in CbdIds |-> NoMedia]
    /\ socket_log = [c \in CbdIds |-> NoSocketLog]
    /\ removal = <<>>
    /\ now = 1
    /\ initialized = 1
    /\ stopping = 0
    /\ shutdown = <<>>

(***************************************************************************)
(* FactorySpec: callers of the socket factory.  A caller owns the sockets  *)
(* it opened in fsock and closes each of them once.                        *)
(***************************************************************************)
FactoryInit ==
    /\ \E w \in 0 .. MaxFactoryWidth :
          pp = ports_pool_init(udp_min_port, udp_min_port + w)
    /\ sockFails = MaxSockFailures
    /\ fsock = [k \in Slots |-> NoSock]
    /\ ret = NoRet
    /\ ncalls = 0
    /\ PluginInit
    /\ thread = ThreadsUp

\* the pool has no free port: ports_pool_get(pp, 0) hands out none
NoFreePort(q) == \A g \in ports_pool_get(q, 0) : g.port = 0

\* the effect of a factory call with outcome out on slot k
FactoryCall(k, op, out) ==
    /\ pp' = out.pp
    /\ sockFails' = out.fails
    /\ proc' = CASE out.res = "abort" -> "aborted"
                 [] out.res = "hang" -> "hung"
                 [] OTHER -> "running"
    /\ fsock' = [fsock EXCEPT ![k] = IF out.res = "TRUE" THEN out.sck ELSE NoSock]
    /\ ret' = [op |-> op, res |-> out.res, tried |-> out.tried]

OpenServer(k) ==
    /\ proc = "running"
    /\ ncalls < MaxFactoryCalls
    /\ ncalls' = ncalls + 1
    /\ fsock[k].null
    /\ \E out \in socket_utils_create_server_socket(pp, sockFails) :
          FactoryCall(k, "open_server", out)
    /\ UNCHANGED <<sessVars, queueVars, rtspVars, outVars, host, lifeVars>>

OpenClient(k, j) ==
    /\ proc = "running"
    /\ ncalls < MaxFactoryCalls
    /\ ncalls' = ncalls + 1
    /\ fsock[k].null
    /\ ~fsock[j].null /\ ~fsock[j].is_client
    /\ \E out \in socket_utils_create_client_socket(pp, fsock[j].port, sockFails) :
          FactoryCall(k, "open_client", out)
    /\ UNCHANGED <<sessVars, queueVars, rtspVars, outVars, host, lifeVars>>

\* socket_utils_close_socket followed by the caller's g_free of the socket
CloseSocket(k) ==
    /\ proc = "running"
    /\ ncalls < MaxFactoryCalls
    /\ ncalls' = ncalls + 1
    /\ ~fsock[k].null
    /\ pp' = socket_utils_close_socket(pp, fsock[k]).pp
    /\ fsock' = [fsock EXCEPT ![k] = NoSock]
    /\ ret' = [op |-> "close", res |-> "none", tried |-> <<>>]
    /\ UNCHANGED <<sockFails, proc, sessVars, queueVars, rtspVars, outVars, host,
                   lifeVars>>

FactoryNext ==
    \/ \E k \in Slots : OpenServer(k)
    \/ \E k, j \in Slots : OpenClient(k, j)
    \/ \E k \in Slots : CloseSocket(k)

FactorySpec == FactoryInit /\ [][FactoryNext]_vars

(***************************************************************************)
(* Properties of the socket factory (FactorySpec).                         *)
(***************************************************************************)
\* C10: whenever the pool has no free port, a call of open_server or of
\* open_client returns failure (FALSE) to its caller; in particular, with
\* udp_min_port = udp_max_port the open calls of a provisioning fail.
C10_OpenFailsWhenNoFreePort ==
    [][\A k \in Slots :
         ((OpenServer(k) \/ \E j \in Slots : OpenClient(k, j)) /\ NoFreePort(pp))
             => ret'.res = "FALSE"]_vars

\* an open_server call was made on a pool without a free port, and it ended
\* the process in g_assert(port)
C10_AssertOnExhaustion ==
    ret.op = "open_server" /\ proc = "aborted" /\ NoFreePort(pp)

\* C12: every acquire, open_server and open_client call terminates: the
\* passes of one open call use pairwise different ports, there are at most as
\* many passes as the pool has ports, and no call is left inside a loop that
\* never ends.
C12_RetriesUseFreshPortsAndEnd ==
    /\ proc # "hung"
    /\ \A i, j \in 1 .. Len(ret.tried) : i # j => ret.tried[i] # ret.tried[j]
    /\ Len(ret.tried) <= pp.max - pp.min + 1

\* an open_client call whose connect failed once was made
C12_RetriedOpenSeen ==
    ret.op = "open_client" /\ Len(ret.tried) = 2

(***************************************************************************)
(* PoolSpec: callers of the port pool on its own (ports_pool.c), driven by *)
(* ports_pool_get and ports_pool_return calls with any port argument.      *)
(***************************************************************************)
\* the port arguments the callers of PoolSpec pass: 0 (any port), the ports
\* of the interval and one port above it
PoolArgs == 0 .. (udp_min_port + MaxFactoryWidth + 1)

PoolInit ==
    /\ \E w \in 0 .. MaxFactoryWidth :
          pp = ports_pool_init(udp_min_port, udp_min_port + w)
    /\ sockFails = 0
    /\ fsock = [k \in Slots |-> NoSock]
    /\ ret = NoRet
    /\ ncalls = 0
    /\ PluginInit
    /\ thread = ThreadsUp

PoolGet(port) ==
    /\ proc = "running"
    /\ ncalls < MaxPoolCalls
    /\ ncalls' = ncalls + 1
    /\ \E g \in ports_pool_get(pp, port) :
          /\ pp' = g.pp
          /\ proc' = IF g.hang THEN "hung" ELSE "running"
          /\ ret' = [op |-> "get", res |-> g.port, arg |-> port]
    /\ UNCHANGED <<sockFails, fsock, sessVars, queueVars, rtspVars, outVars, host,
                   lifeVars>>

PoolReturn(port) ==
    /\ proc = "running"
    /\ ncalls < MaxPoolCalls
    /\ ncalls' = ncalls + 1
    /\ pp' = ports_pool_return(pp, port)
    /\ ret' = [op |-> "return", res |-> 0, arg |-> port]
    /\ UNCHANGED <<sockFails, proc, fsock, sessVars, queueVars, rtspVars, outVars,
                   host, lifeVars>>

PoolNext ==
    \/ \E port \in PoolArgs : PoolGet(port)
    \/ \E port \in PoolArgs \ {0} : PoolReturn(port)

PoolSpec == PoolInit /\ [][PoolNext]_vars

(***************************************************************************)
(* Properties of the port pool (PoolSpec).                                 *)
(***************************************************************************)
\* the ports of the closed interval [min, max] that are not allocated
FreePorts(q) == (q.min .. q.max) \ q.list

\* C13: acquire(requested) returns requested when that port is free and
\* within [min, max]; otherwise it returns some other free port of the
\* interval, as long as one exists.
C13_AcquireRequestedOrOtherFree ==
    [][\A port \in PoolArgs :
         (PoolGet(port) /\ ret'.arg = port) =>
             IF port \in FreePorts(pp)
             THEN ret'.res = port
             ELSE FreePorts(pp) # {} =>
                     (proc' = "running" /\ ret'.res \in FreePorts(pp))]_vars

\* acquire was called with a port of the interval that is allocated while
\* another port of the interval is free
C13_TakenPortRequested ==
    /\ ret.op = "get"
    /\ ret.arg \in pp.list
    /\ ret.arg \in pp.min .. pp.max
    /\ FreePorts(pp) # {}

\* C14: acquire fails only when the capacity is exhausted: it returns a port
\* whenever one of the max - min + 1 ports of [min, max] is free, and it
\* fails when all of them are allocated.
C14_AcquireFailsOnlyWhenExhausted ==
    [][\A port \in PoolArgs :
         (PoolGet(port) /\ ret'.arg = port) =>
             /\ proc' = "running"
             /\ (ret'.res # 0) <=> (FreePorts(pp) # {})]_vars

\* acquire returned 0 while the last port of the interval was free
C14_FailedWithMaxFree ==
    ret.op = "get" /\ ret.res = 0 /\ pp.max \in FreePorts(pp)

\* C15: release(port) of a port that is not allocated changes neither the
\* allocated set nor the count of ports in use.
C15_ReleaseOfUnallocatedIsNoOp ==
    [][\A port \in PoolArgs :
         (PoolReturn(port) /\ ret'.arg = port /\ port \notin pp.list) =>
             pp' = pp]_vars

\* a release of a port that was not allocated left the count of ports in
\* use below the number of allocated ports
C15_CountBelowAllocated ==
    ret.op = "return" /\ pp.count < Cardinality(pp.list)

(***************************************************************************)
(* gst_utils.c: the sockets of a session and of its pipeline context.      *)
(***************************************************************************)
\* create_server_socket (gst_utils.c): the socket stored under the name, or
\* NULL when the factory reports failure
RECURSIVE ProvisionFrom(_, _)
ProvisionFrom(i, st) ==
    IF i > Len(ProvisionSteps) \/ st.res # "ok" THEN {st}
    ELSE LET step == ProvisionSteps[i]
             Store(out) ==
                 LET sck == IF out.res = "TRUE" THEN out.sck ELSE NoSock
                     res == CASE out.res = "abort" -> "abort"
                              [] out.res = "hang" -> "hang"
                              [] OTHER -> "ok"
                 IN [pp |-> out.pp, fails |-> out.fails, res |-> res,
                     ss |-> IF step.tbl = "sess" /\ res = "ok"
                            THEN [st.ss EXCEPT ![step.name] = sck] ELSE st.ss,
                     cs |-> IF step.tbl = "cbd" /\ res = "ok"
                            THEN [st.cs EXCEPT ![step.name] = sck] ELSE st.cs]
             outs ==
                 IF step.peer = ""
                 THEN socket_utils_create_server_socket(st.pp, st.fails)
                 ELSE IF st.cs[step.peer].null
                 THEN \* ->port of the NULL the lookup found
                      {[pp |-> st.pp, sck |-> NoSock, res |-> "abort",
                        fails |-> st.fails, tried |-> <<>>]}
                 ELSE socket_utils_create_client_socket(
                          st.pp, st.cs[step.peer].port, st.fails)
         IN UNION {ProvisionFrom(i + 1, Store(out)) : out \in outs}

\* the ten create_*_socket calls of janus_rtsp_handle_client_callback
Provision(q, fails) ==
    ProvisionFrom(1, [pp |-> q, fails |-> fails, res |-> "ok",
                      ss |-> EmptySessSockets, cs |-> EmptyCbdSockets])

\* socket_utils_attach_callback on the two *_rtcp_snd_srv sockets
AttachRtcpCallbacks(ss) ==
    [n \in SessSockNames |->
        IF n \in {"video_rtcp_snd_srv", "audio_rtcp_snd_srv"} /\ ~ss[n].null
        THEN [ss[n] EXCEPT !.source = TRUE] ELSE ss[n]]

\* g_hash_table_foreach_remove(sockets, close_and_destroy_sockets): the pool
\* after every socket of the table was closed
RECURSIVE CloseAll(_, _, _)
CloseAll(q, socks, names) ==
    IF names = {} THEN q
    ELSE LET n == CHOOSE x \in names : TRUE
             q1 == IF socks[n].null THEN q
                   ELSE socket_utils_close_socket(q, socks[n]).pp
         IN CloseAll(q1, socks, names \ {n})

\* pipeline_callback_data_destroy
pipeline_callback_data_destroy(q, data) ==
    [pp  |-> CloseAll(q, data.sockets, CbdSockNames),
     cbd |-> [data EXCEPT !.st = "freed", !.sockets = EmptyCbdSockets]]

(***************************************************************************)
(* rtsp_clients_utils.c and the client callbacks of gst_utils.c.           *)
(***************************************************************************)
\* g_list_remove: the list without its first entry equal to x
RECURSIVE g_list_remove(_, _)
g_list_remove(list, x) ==
    IF list = <<>> THEN <<>>
    ELSE IF Head(list) = x THEN Tail(list)
    ELSE <<Head(list)>> \o g_list_remove(Tail(list), x)

\* rtsp_clients_list_add: the new list and the change of the references
\* held on the client
rtsp_clients_list_add(list, client) ==
    [list |-> Append(list, client), refs |-> 1]

\* rtsp_clients_list_remove: nothing is done on an empty (NULL) list
rtsp_clients_list_remove(list, client) ==
    IF list # <<>>
    THEN [list |-> g_list_remove(list, client), refs |-> -1]
    ELSE [list |-> list, refs |-> 0]

\* client_setup_request_cb: rtsp_clients_list_add(..., g_object_ref(client))
client_setup_request_cb(list, client) ==
    LET a == rtsp_clients_list_add(list, client)
    IN [list |-> a.list, refs |-> 1 + a.refs]

\* client_pause_request_cb: rtsp_clients_list_remove(..., g_object_ref(client))
client_pause_request_cb(list, client) ==
    LET r == rtsp_clients_list_remove(list, client)
    IN [list |-> r.list, refs |-> 1 + r.refs]

\* an entry of the log of a remove_mountpoint call
Op(op, client, url) == [op |-> op, client |-> client, url |-> url]

\* rtsp_clients_teardown_and_remove_all over the entries of list: the
\* clients and the log after it.  rtsp_server_send_teardown sends a TEARDOWN
\* for every session the client still watches and makes the client drop it.
RECURSIVE rtsp_clients_teardown_and_remove_all(_, _, _, _)
rtsp_clients_teardown_and_remove_all(cl, list, uri, log) ==
    IF list = <<>> THEN [rtsp_clients |-> cl, log |-> log]
    ELSE LET k == Head(list)
             watched == cl[k].session # "none"
                        /\ \A i \in 1 .. Len(log) :
                              ~(log[i].op = "teardown" /\ log[i].client = k)
             log1 == IF watched THEN Append(log, Op("teardown", k, uri))
                     ELSE log
             refs == cl[k].refs - 1
             k1 == [cl[k] EXCEPT !.st = "closed", !.refs = refs,
                                 !.handlers = IF refs = 0 THEN {} ELSE @]
         IN rtsp_clients_teardown_and_remove_all(
                [cl EXCEPT ![k] = k1], Tail(list), uri,
                Append(log1, Op("close", k, "null")))

(***************************************************************************)
(* rtsp_server.c                                                           *)
(* A factory is named by the pipeline context it was created with.         *)
(***************************************************************************)
\* janus_source_rtsp_add_mountpoint: the new mount points
janus_source_rtsp_add_mountpoint(m, factory, id) ==
    [m EXCEPT ![id] = factory]

\* janus_source_close_all_rtsp_sessions_for_mountpoint: the sessions whose
\* media is at the path of the uri leave the session pool
janus_source_close_all_rtsp_sessions_for_mountpoint(cl, id) ==
    [k \in RtspClients |->
        IF cl[k].session = id
        THEN [cl[k] EXCEPT !.session = "none", !.factory = 0,
                           !.state = "init", !.active = FALSE]
        ELSE cl[k]]

\* the socket log after the sockets of table socks were closed by the plugin
LogCloses(sl, c, socks, names) ==
    [sl EXCEPT ![c] =
        [n \in AllSockNames |->
            IF n \in names /\ ~socks[n].null
            THEN [sl[c][n] EXCEPT !.closes = @ + 1] ELSE sl[c][n]]]

\* a media no session uses any more is unprepared: each udpsrc of its
\* pipeline closes the socket it was given when its close-socket is TRUE
ReleaseMedia(md, sl, cl) ==
    LET idle == {f \in CbdIds : md[f].prepared
                                /\ \A k \in RtspClients : cl[k].factory # f}
    IN [media |-> [f \in CbdIds |-> IF f \in idle THEN NoMedia ELSE md[f]],
        socket_log |->
            [f \in CbdIds |->
                [n \in AllSockNames |->
                    IF f \in idle /\ n \in md[f].socket /\ md[f].close_socket
                    THEN [sl[f][n] EXCEPT !.pipeline = @ + 1]
                    ELSE sl[f][n]]]]

\* janus_source_rtsp_remove_mountpoint(server, id, data) where data is
\* cbd[c]: the new values of what it changes
janus_source_rtsp_remove_mountpoint(q, cb, m, ss, fs, cl, md, sl, id, c) ==
    LET data == cb[c]
        td == rtsp_clients_teardown_and_remove_all(
                  cl, data.clients_list, data.rtsp_url, <<>>)
        cl2 == janus_source_close_all_rtsp_sessions_for_mountpoint(
                  td.rtsp_clients, id)
        rel == ReleaseMedia(md, sl, cl2)
        factory == m[id]
        disconnected == data.id_media_configure_cb > 0 /\ factory # 0
        data1 == [data EXCEPT
                    !.clients_list = <<>>,
                    !.id_client_connected_cb = 0,
                    !.id_media_configure_cb = IF disconnected THEN 0 ELSE @]
        d == pipeline_callback_data_destroy(q, data1)
    IN [pp |-> d.pp,
        cbd |-> [cb EXCEPT ![c] = d.cbd],
        mounts |-> [m EXCEPT ![id] = 0],
        server_signals |-> IF data.id_client_connected_cb > 0
                           THEN ss \ {c} ELSE ss,
        factory_signal |-> IF disconnected /\ factory = c
                           THEN [fs EXCEPT ![factory] = FALSE] ELSE fs,
        rtsp_clients |-> cl2,
        media |-> rel.media,
        socket_log |-> LogCloses(rel.socket_log, c, data.sockets, CbdSockNames),
        removal |-> td.log \o <<Op("close_sessions", 0, id),
                                Op("remove_factory", 0, id),
                                Op("destroy", 0, "null")>>]

(***************************************************************************)
(* sdp_utils.c.  An SDP is the record of what the functions read in it:    *)
(*   direction  the direction attribute: "sendrecv", "recvonly", "sendonly"*)
(*              or "inactive"                                              *)
(*   video      the payload types of the line                              *)
(*              "m=video <port> UDP/TLS/RTP/SAVPF <pt> <pt> ...", in       *)
(*              order; <<>> when the SDP has no such line                  *)
(*   audio      the same for "m=audio"                                     *)
(*   rtpmap     the lines "a=rtpmap:<pt> <name>/<rate>", in order, each    *)
(*              [pt |-> pt, name |-> name]                                 *)
(* A codec is "OPUS", "VP8", "VP9", "H264" or "INVALID" (idilia_codec).    *)
(***************************************************************************)
Sdp(direction, video, audio, rtpmap) ==
    [direction |-> direction, video |-> video, audio |-> audio,
     rtpmap |-> rtpmap]

Rtpmap(pt, name) == [pt |-> pt, name |-> name]

\* codec_name_mapping
codec_name_mapping ==
    << [name |-> "H264", id |-> "H264"], [name |-> "VP8", id |-> "VP8"],
       [name |-> "VP9", id |-> "VP9"], [name |-> "opus", id |-> "OPUS"],
       [name |-> "INVALID", id |-> "INVALID"] >>

\* the first index of sequence q whose entry satisfies Test, 0 for none
FirstIndex(q, Test(_)) ==
    IF \E i \in DOMAIN q : Test(q[i])
    THEN CHOOSE i \in DOMAIN q :
            Test(q[i]) /\ \A j \in 1 .. (i - 1) : ~Test(q[j])
    ELSE 0

get_codec_name(codec) ==
    LET i == FirstIndex(codec_name_mapping, LAMBDA e : e.id = codec)
    IN IF i = 0 THEN "INVALID" ELSE codec_name_mapping[i].name

sdp_codec_name_to_id(name) ==
    LET i == FirstIndex(codec_name_mapping, LAMBDA e : e.name = name)
    IN IF i = 0 THEN "INVALID" ELSE codec_name_mapping[i].id

\* sdp_get_codec_pt: the payload type of the first rtpmap line that names
\* the codec, -1 for none
sdp_get_codec_pt(sdp, codec) ==
    LET i == FirstIndex(sdp.rtpmap, LAMBDA e : e.name = get_codec_name(codec))
    IN IF i = 0 THEN -1 ELSE sdp.rtpmap[i].pt

\* sdp_get_codec_pt_for_type: the first payload type of the m= line of the
\* type, -1 when there is no such line
sdp_get_codec_pt_for_type(sdp, type) ==
    LET line == IF type = "video" THEN sdp.video ELSE sdp.audio
    IN IF line = <<>> THEN -1 ELSE line[1]

\* sdp_pt_to_codec_id: the codec the first rtpmap line of the payload type
\* names
sdp_pt_to_codec_id(sdp, pt) ==
    LET i == FirstIndex(sdp.rtpmap, LAMBDA e : e.pt = pt)
    IN IF i = 0 THEN "INVALID" ELSE sdp_codec_name_to_id(sdp.rtpmap[i].name)

sdp_get_video_codec(sdp) ==
    sdp_pt_to_codec_id(sdp, sdp_get_codec_pt_for_type(sdp, "video"))

sdp_get_audio_codec(sdp) ==
    sdp_pt_to_codec_id(sdp, sdp_get_codec_pt_for_type(sdp, "audio"))

\* the payload type of the codec first and the other payload types of the
\* line after it, in their order
MoveToFront(sdp, video_codec) ==
    LET desired == sdp_get_codec_pt(sdp, video_codec)
    IN IF sdp_get_codec_pt_for_type(sdp, "video") = desired
          \/ video_codec = "INVALID"
       THEN sdp
       ELSE [sdp EXCEPT !.video =
               <<desired>> \o SelectSeq(sdp.video, LAMBDA p : p # desired)]

\* the first payload type of the video line moved to its end, whatever the
\* codec
RotateVideoLine(sdp_offer, video_codec) ==
    IF sdp_offer.video = <<>> THEN sdp_offer
    ELSE [sdp_offer EXCEPT !.video = Tail(sdp_offer.video) \o <<Head(sdp_offer.video)>>]

\* sdp_set_video_codec: the regular expression takes the m=video line up to
\* its second payload type, sscanf reads the two payload types, and
\* str_replace_once puts the new beginning of the line in its place
sdp_set_video_codec(sdp_offer, video_codec) ==
    LET current_codec_pt == sdp_get_codec_pt_for_type(sdp_offer, "video")
        desired_codec_pt == sdp_get_codec_pt(sdp_offer, video_codec)
        line == sdp_offer.video
    IN IF current_codec_pt = desired_codec_pt \/ video_codec = "INVALID"
       THEN sdp_offer
       ELSE IF Len(line) >= 2
       THEN LET codec2 == line[2]
                codec1 == IF codec2 # desired_codec_pt THEN codec2 ELSE line[1]
            IN [sdp_offer EXCEPT !.video =
                   <<desired_codec_pt, codec1>> \o SubSeq(line, 3, Len(line))]
       ELSE sdp_offer

\* janus_source_select_video_codec_by_priority_list with codec_priority_list
\* equal to list
LastOfPriorityList(sdp, list) ==
    LET found == {i \in DOMAIN list : sdp_get_codec_pt(sdp, list[i]) # -1}
    IN IF found = {} THEN "INVALID"
       ELSE list[CHOOSE i \in found : \A j \in found : j <= i]

janus_source_select_video_codec_by_priority_list(sdp, list) ==
    LET i == FirstIndex(list, LAMBDA c : sdp_get_codec_pt(sdp, c) # -1)
    IN IF i = 0 THEN "INVALID" ELSE list[i]

\* janus_source_do_codec_negotiation: the SDP it returns and what it stores
\* in session->codec and session->codec_pt
janus_source_do_codec_negotiation(orig_sdp, list) ==
    LET preferred_codec ==
            janus_source_select_video_codec_by_priority_list(orig_sdp, list)
        sdp == sdp_set_video_codec(orig_sdp, preferred_codec)
        codec == [video |-> sdp_get_video_codec(sdp),
                  audio |-> sdp_get_audio_codec(sdp)]
    IN [sdp |-> sdp,
        codec |-> codec,
        codec_pt |-> [stream \in {"video", "audio"} |->
                         sdp_get_codec_pt(sdp, codec[stream])]]

\* no SDP
NoSdp == Sdp("none", <<>>, <<>>, <<>>)

\* the offer of the messages that carry a jsep in Spec
PlainOffer == Sdp("sendrecv", <<100>>, <<>>, <<Rtpmap(100, "VP8")>>)

\* codec_priority_list of the plugin: video_codec_priority = H264,VP8
codec_priority_list == <<"H264", "VP8">>

\* the handler: the type of the jsep it pushes for a jsep of the type
JsepType(msg_sdp_type) ==
    CASE msg_sdp_type = "offer" -> "answer"
      [] msg_sdp_type = "answer" -> "offer"
      [] OTHER -> "none"

\* the handler: "a=recvonly" becomes "a=inactive", else "a=sendonly" becomes
\* "a=recvonly"
FixDirection(sdp) ==
    [sdp EXCEPT !.direction = CASE @ = "recvonly" -> "inactive"
                                [] @ = "sendonly" -> "recvonly"
                                [] OTHER -> @]

\* the handler: in an SDP with the text "ulpfec", the lines
\* "a=rtpmap:116 red/90000", "a=rtpmap:117 ulpfec/90000" and
\* "a=rtpmap:<96, 97 or 98> rtx/90000" are taken out, and so is every
\* " 116", " 117", " 96", " 97" and " 98"
StripFec(sdp) ==
    LET gone == {116, 117, 96, 97, 98}
        line(e) == \/ e.pt = 116 /\ e.name = "red"
                   \/ e.pt = 117 /\ e.name = "ulpfec"
                   \/ e.pt \in {96, 97, 98} /\ e.name = "rtx"
    IN IF \E i \in DOMAIN sdp.rtpmap : sdp.rtpmap[i].name = "ulpfec"
       THEN [sdp EXCEPT
               !.video = SelectSeq(@, LAMBDA p : p \notin gone),
               !.audio = SelectSeq(@, LAMBDA p : p \notin gone),
               !.rtpmap = SelectSeq(@, LAMBDA l : ~line(l))]
       ELSE sdp

\* the handler: jsep = json_pack("{ssss}", "type", type, "sdp", sdp), made
\* before the call of janus_source_do_codec_negotiation
HandlerJsep(type, body) ==
    [type |-> JsepType(type), sdp |-> StripFec(FixDirection(body))]

\* janus_source_create_launch_pipe for session s: the branches of the
\* launch line, <<>> for NULL.  A branch is the codec and the payload type
\* its pipeline was written with, NoBranch for a NULL string.
NoBranch == [codec |-> "INVALID", pt |-> -1]

janus_source_create_launch_pipe(s) ==
    LET Branch(stream) == [codec |-> s.codec[stream], pt |-> s.codec_pt[stream]]
        VideoCodecs == {"VP8", "VP9", "H264"}
        launch_pipe_video ==
            IF s.codec.audio \in VideoCodecs THEN Branch("audio")
            ELSE IF s.codec.video \in VideoCodecs THEN Branch("video")
            ELSE NoBranch
        launch_pipe_audio ==
            IF s.codec.audio = "OPUS" THEN Branch("audio")
            ELSE IF s.codec.video = "OPUS" THEN Branch("video")
            ELSE NoBranch
    IN IF s.sockets["video_rtcp_snd_srv"].null
          \/ s.sockets["audio_rtcp_snd_srv"].null
       THEN <<>>
       ELSE IF s.codec.video # "INVALID" /\ s.codec.audio # "INVALID"
       THEN <<launch_pipe_video, launch_pipe_audio>>
       ELSE IF s.codec.video # "INVALID" THEN <<launch_pipe_video>>
       ELSE IF s.codec.audio # "INVALID" THEN <<launch_pipe_audio>>
       ELSE <<>>

(***************************************************************************)
(* idilia_source.c: the plugin callbacks.                                  *)
(***************************************************************************)
\* room for n more entries in the event log that is kept
Room(n) == Len(events) + n <= MaxEvents

\* gateway->push_event(handle, plugin, transaction, event, jsep); the
\* transaction is 0 for NULL
EventT(h, transaction, kind, code, jsep) ==
    [h |-> h, transaction |-> transaction, kind |-> kind, code |-> code,
     jsep |-> jsep, type |-> "none", sdp |-> NoSdp, bitrate |-> 0]

\* an event pushed with no transaction
Event(h, kind, code, jsep) == EventT(h, 0, kind, code, jsep)

\* one more request r sent to the registry
Sent(r) == [http EXCEPT ![r] = @ + 1]

janus_source_create_session(h) ==
    /\ proc = "running"
    /\ sess[h].mem = "none"
    /\ sess' = [sess EXCEPT ![h] =
                  [NoSession EXCEPT !.mem = "live", !.audio_active = TRUE,
                                    !.video_active = TRUE]]
    /\ sessions' = sessions \cup {h}
    /\ error' = [error EXCEPT ![h] = 0]
    /\ UNCHANGED <<poolVars, factoryVars, lifeVars, old_sessions, cbd, queueVars,
                   rtspVars, events, http, sent, relayed, host>>

\* janus_source_close_session(session) for the session of handle h, after
\* the DELETE was sent: the possible results.  Running it on a pipeline
\* context that was freed before is a use of freed memory: the process
\* crashes or goes on with what the freed block still holds.
janus_source_close_session(h) ==
    LET s == sess[h]
        c == s.callback_data
        same == [pp |-> pp, cbd |-> cbd, mounts |-> mounts,
                 server_signals |-> server_signals,
                 factory_signal |-> factory_signal,
                 rtsp_clients |-> rtsp_clients, media |-> media,
                 socket_log |-> socket_log, removal |-> removal]
        rm == IF c # 0
              THEN janus_source_rtsp_remove_mountpoint(
                       pp, cbd, mounts, server_signals, factory_signal,
                       rtsp_clients, media, socket_log, s.id, c)
              ELSE same
        q2 == IF s.sockets_null THEN rm.pp
              ELSE CloseAll(rm.pp, s.sockets, SessSockNames)
        sl2 == IF s.sockets_null \/ c = 0 THEN rm.socket_log
               ELSE LogCloses(rm.socket_log, c, s.sockets, SessSockNames)
        s2 == [s EXCEPT !.sockets_null = TRUE, !.sockets = EmptySessSockets,
                        !.id = "null", !.db_entry_session_id = "null",
                        !.rtsp_url = "null"]
    IN {[st |-> [rm EXCEPT !.pp = q2, !.socket_log = sl2], s |-> s2,
         crash |-> FALSE,
         mutated |-> c # 0]}
       \cup (IF c # 0 /\ cbd[c].st = "freed"
             THEN {[st |-> same, s |-> s, crash |-> TRUE, mutated |-> FALSE]}
             ELSE {})

\* janus_source_destroy_session on a handle that has no session
DestroyNoSession(h) ==
    /\ proc = "running"
    /\ sess[h].mem = "none"
    /\ error' = [error EXCEPT ![h] = -2]
    /\ UNCHANGED <<poolVars, factoryVars, lifeVars, sessVars, queueVars, rtspVars,
                   events, http, sent, relayed, host>>

\* janus_source_destroy_session up to the sessions_mutex: close_session runs
\* on the calling gateway thread t
DestroyClose(t, h) ==
    /\ proc = "running"
    /\ host[t].pc = "idle"
    /\ sess[h].mem # "none"
    /\ LET r == StatusDelete(sess[h].db_entry_session_id)
       IN /\ http[r] < MaxHttp
          /\ http' = Sent(r)
    /\ \E o \in janus_source_close_session(h) :
          /\ pp' = o.st.pp
          /\ cbd' = o.st.cbd
          /\ mounts' = o.st.mounts
          /\ server_signals' = o.st.server_signals
          /\ factory_signal' = o.st.factory_signal
          /\ rtsp_clients' = o.st.rtsp_clients
          /\ media' = o.st.media
          /\ socket_log' = o.st.socket_log
          /\ removal' = o.st.removal
          /\ sess' = [sess EXCEPT ![h] = o.s]
          /\ proc' = IF o.crash THEN "aborted" ELSE proc
          /\ mutators' = IF o.mutated THEN mutators \cup {"host"} ELSE mutators
    /\ host' = [host EXCEPT ![t] = [pc |-> "destroy_mark", h |-> h]]
    /\ error' = [error EXCEPT ![h] = 0]
    /\ UNCHANGED <<sockFails, factoryVars, lifeVars, sessions, old_sessions, queueVars,
                   events, sent, relayed>>

\* what `if (!session->destroyed)' reads: the field of a live session; in a
\* session the watchdog freed, what the freed block holds, which is the old
\* time or, once the block was given out again, zero, or the read crashes
DestroyedRead(s) ==
    IF s.mem = "freed" THEN {"set", "zero", "crash"}
    ELSE IF s.destroyed = 0 THEN {"zero"} ELSE {"set"}

\* janus_source_destroy_session under the sessions_mutex
DestroyMark(t) ==
    /\ proc = "running"
    /\ host[t].pc = "destroy_mark"
    /\ LET h == host[t].h
       IN \E read \in DestroyedRead(sess[h]) :
             /\ proc' = IF read = "crash" THEN "aborted" ELSE proc
             /\ IF read = "zero"
                THEN /\ sess' = [sess EXCEPT ![h].destroyed = now]
                     /\ sessions' = sessions \ {h}
                     /\ old_sessions' = Append(old_sessions, h)
                ELSE UNCHANGED <<sess, sessions, old_sessions>>
    /\ host' = [host EXCEPT ![t] = IdleHost]
    /\ UNCHANGED <<pp, sockFails, factoryVars, lifeVars, cbd, queueVars, rtspVars,
                   outVars>>

\* janus_source_handle_message while the gateway has made fewer than max
\* calls; the gateway numbers its transactions in the order of its calls
HandleMessage(h, m, max) ==
    /\ proc = "running"
    /\ sess[h].mem # "none"
    /\ nmsg < max
    /\ nmsg' = nmsg + 1
    /\ messages' = Append(messages, [handle |-> h, transaction |-> nmsg + 1,
                                     message |-> m])
    /\ UNCHANGED <<poolVars, factoryVars, lifeVars, sessVars, rtsp_async_queue, rtsp,
                   nsetup, rtspVars, outVars, host>>

janus_source_handle_message(h, m) == HandleMessage(h, m, MaxMessages)

SetupMedia(h, max) ==
    /\ proc = "running"
    /\ sess[h].mem # "none"
    /\ nsetup[h] < max
    /\ IF stopping = 1 \/ initialized = 0 \/ sess[h].destroyed # 0
       THEN UNCHANGED <<sess, rtsp_async_queue, nsetup, proc>>
       ELSE /\ sess' = [sess EXCEPT ![h].hangingup = 0]
            /\ nsetup' = [nsetup EXCEPT ![h] = @ + 1]
            /\ CASE thread.rtsp \in {"start", "refused", "exited"} ->
                      \* rtsp_server_data is NULL
                      /\ proc' = "aborted"
                      /\ UNCHANGED rtsp_async_queue
                 [] thread.rtsp = "setup" ->
                      \* rtsp_server_data->rtsp_async_queue is NULL:
                      \* g_async_queue_push returns without the item
                      UNCHANGED <<rtsp_async_queue, proc>>
                 [] OTHER ->
                      /\ rtsp_async_queue' = Append(rtsp_async_queue, h)
                      /\ UNCHANGED proc
    /\ UNCHANGED <<pp, sockFails, factoryVars, lifeVars, sessions, old_sessions,
                   cbd, messages, rtsp, nmsg, rtspVars, outVars, host>>

janus_source_setup_media(h) == SetupMedia(h, MaxSetups)

\* janus_source_hangup_media without the test of the counter
HangupAlways(old) == TRUE

\* `if (g_atomic_int_add(&session->hangingup, 1)) return;': the call goes on
\* when the counter was old before the add
HangupProceeds(old) == old = 0

\* janus_source_hangup_media up to and including the atomic add
HangupEnter(t, h) ==
    /\ proc = "running"
    /\ host[t].pc = "idle"
    /\ sess[h].mem # "none"
    /\ sess[h].hangingup < MaxHangingup
    /\ IF sess[h].destroyed # 0
       THEN UNCHANGED <<sess, host>>
       ELSE /\ sess' = [sess EXCEPT ![h].hangingup = @ + 1]
            /\ host' = IF HangupProceeds(sess[h].hangingup)
                       THEN [host EXCEPT ![t] = [pc |-> "hangup_push", h |-> h]]
                       ELSE host
    /\ UNCHANGED <<poolVars, factoryVars, lifeVars, sessions, old_sessions, cbd,
                   queueVars, rtspVars, outVars>>

\* janus_source_hangup_media after the atomic add: the `done' event and the
\* reset of the controls
HangupPush(t) ==
    /\ proc = "running"
    /\ host[t].pc = "hangup_push"
    /\ Room(1)
    /\ LET h == host[t].h
       IN /\ events' = Append(events, Event(h, "done", 0, FALSE))
          /\ sess' = [sess EXCEPT ![h].audio_active = TRUE,
                                  ![h].video_active = TRUE,
                                  ![h].bitrate = 0]
    /\ host' = [host EXCEPT ![t] = IdleHost]
    /\ UNCHANGED <<poolVars, factoryVars, lifeVars, sessions, old_sessions, cbd,
                   queueVars, rtspVars, http, sent, relayed, error>>

\* g_hash_table_lookup(session->sockets, name): NULL when the table is NULL
LookupSocket(s, name) == IF s.sockets_null THEN NoSock ELSE s.sockets[name]

\* janus_source_relay_rtp / janus_source_relay_rtcp: the datagram counters
\* after the g_socket_send on the socket found under name
Relay(h, name) ==
    IF LookupSocket(sess[h], name).null THEN sent
    ELSE [sent EXCEPT ![h] = @ + 1]

janus_source_incoming_rtp(h, video) ==
    /\ proc = "running"
    /\ sess[h].mem # "none"
    /\ sent[h] < MaxPackets
    /\ sent' = IF sess[h].destroyed # 0 THEN sent
               ELSE IF (~video /\ sess[h].audio_active)
                       \/ (video /\ sess[h].video_active)
               THEN Relay(h, IF video THEN "video_rtp_cli" ELSE "audio_rtp_cli")
               ELSE sent
    /\ UNCHANGED <<poolVars, factoryVars, lifeVars, sessVars, queueVars, rtspVars,
                   events, http, relayed, error, host>>

janus_source_incoming_rtcp(h, video) ==
    /\ proc = "running"
    /\ sess[h].mem # "none"
    /\ sent[h] < MaxPackets
    /\ sent' = IF sess[h].destroyed # 0 THEN sent
               ELSE Relay(h, IF video THEN "video_rtcp_rcv_cli"
                                      ELSE "audio_rtcp_rcv_cli")
    /\ UNCHANGED <<poolVars, factoryVars, lifeVars, sessVars, queueVars, rtspVars,
                   events, http, relayed, error, host>>

(***************************************************************************)
(* The message handler thread.  A message is                               *)
(*   kind      "null" (no message), "notobj" (not a JSON object), "obj"    *)
(*   audio, video, record   "absent", "true", "false", "bad" (no boolean)  *)
(*   bitrate   -1 absent, -2 not a non-negative integer, else the value    *)
(*   filename  "absent", "str", "bad"                                      *)
(*   id        "absent", "bad" (not a string), else the string             *)
(*   sdp       "absent" or the type of the jsep                            *)
(***************************************************************************)
Msg(audio, video, bitrate, id, sdp) ==
    [kind |-> "obj", audio |-> audio, video |-> video, bitrate |-> bitrate,
     record |-> "absent", filename |-> "absent", id |-> id, sdp |-> sdp,
     body |-> IF sdp = "absent" THEN NoSdp ELSE PlainOffer]

\* the messages the gateway sends in the model
Messages ==
    { Msg("absent", "absent", -1, "cam1", "absent"),
      Msg("false", "false", 128, "absent", "absent"),
      Msg("absent", "absent", -1, "absent", "offer"),
      [Msg("absent", "absent", -1, "absent", "absent") EXCEPT !.kind = "null"] }

JANUS_SOURCE_ERROR_NO_MESSAGE == 411
JANUS_SOURCE_ERROR_INVALID_JSON == 412
JANUS_SOURCE_ERROR_INVALID_ELEMENT == 413
JANUS_SOURCE_ERROR_INVALID_URL_ID == 414

\* HandlerError without the test for a message that has no attribute
HandlerErrorTypesOnly(m) ==
    CASE m.kind = "null" -> JANUS_SOURCE_ERROR_NO_MESSAGE
      [] m.kind = "notobj" -> JANUS_SOURCE_ERROR_INVALID_JSON
      [] m.kind = "obj" /\ (\/ m.audio = "bad" \/ m.video = "bad"
                            \/ m.bitrate = -2 \/ m.record = "bad"
                            \/ m.filename = "bad" \/ m.id = "bad")
           -> JANUS_SOURCE_ERROR_INVALID_ELEMENT
      [] OTHER -> 0

\* the error code the validation of message m ends with, 0 for none
HandlerError(m) ==
    CASE m.kind = "null" -> JANUS_SOURCE_ERROR_NO_MESSAGE
      [] m.kind = "notobj" -> JANUS_SOURCE_ERROR_INVALID_JSON
      [] m.kind = "obj" /\ (\/ m.audio = "bad" \/ m.video = "bad"
                            \/ m.bitrate = -2 \/ m.record = "bad"
                            \/ m.filename = "bad" \/ m.id = "bad")
           -> JANUS_SOURCE_ERROR_INVALID_ELEMENT
      [] m.kind = "obj" /\ m.audio = "absent" /\ m.video = "absent"
           /\ m.bitrate = -1 /\ m.record = "absent" /\ m.id = "absent"
           /\ m.sdp = "absent"
           -> JANUS_SOURCE_ERROR_INVALID_ELEMENT
      [] OTHER -> 0

\* janus_rtcp_remb(buf, 24, bitrate) followed by
\* gateway->relay_rtcp(handle, 1, buf, 24)
Remb(h, bitrate) == [h |-> h, bitrate |-> bitrate]

\* the "Enforce request" part of the handler, and the reset of hangingup
\* when the message carries a jsep
HandlerEnforce(s, m) ==
    LET s1 == IF m.audio # "absent"
              THEN [s EXCEPT !.audio_active = (m.audio = "true")] ELSE s
        s2 == IF m.video # "absent"
              THEN [s1 EXCEPT !.video_active = (m.video = "true")] ELSE s1
        s3 == IF m.bitrate # -1 THEN [s2 EXCEPT !.bitrate = m.bitrate] ELSE s2
        s4 == IF m.id # "absent" THEN [s3 EXCEPT !.id = m.id] ELSE s3
        n == janus_source_do_codec_negotiation(StripFec(FixDirection(m.body)),
                                               codec_priority_list)
    IN IF m.sdp # "absent"
       THEN [s4 EXCEPT !.hangingup = 0, !.codec = n.codec,
                       !.codec_pt = n.codec_pt]
       ELSE s4

\* a queue that hands out the entry pushed last
QueuePopNewest(q) ==
    [msg |-> q[Len(q)], rest |-> SubSeq(q, 1, Len(q) - 1)]

\* g_async_queue_pop on a queue that is not empty: the entry pushed first
\* and the queue it leaves
g_async_queue_pop(q) ==
    [msg |-> Head(q), rest |-> Tail(q)]

\* one turn of the loop of janus_source_handler
janus_source_handler ==
    /\ proc = "running"
    /\ messages # <<>>
    /\ Room(1)
    /\ messages' = g_async_queue_pop(messages).rest
    /\ LET msg == g_async_queue_pop(messages).msg
           h == msg.handle
           m == msg.message
           err == HandlerError(m)
       IN IF h \notin sessions \/ sess[h].destroyed # 0
          THEN UNCHANGED <<sess, events, relayed>>
          ELSE IF err # 0
          THEN /\ events' = Append(events, EventT(h, msg.transaction, "error",
                                                  err, FALSE))
               /\ UNCHANGED <<sess, relayed>>
          ELSE /\ sess' = [sess EXCEPT ![h] = HandlerEnforce(sess[h], m)]
               /\ relayed' = IF m.bitrate > 0
                             THEN Append(relayed, Remb(h, m.bitrate))
                             ELSE relayed
               /\ events' = Append(events,
                     IF m.sdp = "absent"
                     THEN EventT(h, msg.transaction, "ok", 0, FALSE)
                     ELSE LET jsep == HandlerJsep(m.sdp, m.body)
                          IN [EventT(h, msg.transaction, "ok", 0, TRUE)
                                EXCEPT !.type = jsep.type, !.sdp = jsep.sdp])
    /\ UNCHANGED <<poolVars, factoryVars, lifeVars, sessions, old_sessions, cbd,
                   rtsp_async_queue, rtsp, nsetup, nmsg, rtspVars, http, sent,
                   error, host>>

(***************************************************************************)
(* The RTSP thread: queue_events_dispatch pops one closure and runs        *)
(* janus_rtsp_handle_client_callback.  The closure blocks in curl_request; *)
(* the other threads run meanwhile, so it is two steps.                    *)
(***************************************************************************)
\* the pipeline context g_new0 hands out
NewCbd == CHOOSE c \in CbdIds : cbd[c].st = "unalloc" /\
              \A d \in CbdIds : cbd[d].st = "unalloc" => c <= d

\* the closure up to the moment the POST is on its way
RtspBegin ==
    /\ proc = "running"
    /\ rtsp.pc = "idle"
    /\ rtsp_async_queue # <<>>
    /\ rtsp_async_queue' = Tail(rtsp_async_queue)
    /\ LET h == Head(rtsp_async_queue)
           s == sess[h]
           c == NewCbd
           post == StatusPost
       IN IF s.hangingup # 0 \/ s.destroyed # 0
          THEN \* on a session the watchdog freed the two tests read the
               \* freed block: it still holds the time of destruction, or
               \* the process crashes
               /\ rtsp' = IdleRtsp
               /\ proc' \in (IF s.mem = "freed" THEN {proc, "aborted"}
                             ELSE {proc})
               /\ UNCHANGED <<pp, sockFails, sess, cbd, http, socket_log>>
          ELSE /\ http[post] < MaxHttp
               /\ \E o \in Provision(pp, sockFails) :
                     /\ pp' = o.pp
                     /\ sockFails' = o.fails
                     /\ proc' = CASE o.res = "abort" -> "aborted"
                                  [] o.res = "hang" -> "hung"
                                  [] OTHER -> proc
                     /\ sess' = [sess EXCEPT ![h] =
                                   [s EXCEPT !.callback_data = c,
                                             !.rtsp_url = s.id,
                                             !.sockets_null = FALSE,
                                             !.sockets = IF o.res = "ok"
                                                         THEN AttachRtcpCallbacks(o.ss)
                                                         ELSE o.ss]]
                     /\ cbd' = [cbd EXCEPT ![c] =
                                  [NoCbd EXCEPT !.st = "live", !.session = h,
                                                !.id = s.id, !.rtsp_url = s.id,
                                                !.sockets = o.cs,
                                                !.launch =
                                     janus_source_create_launch_pipe(
                                         [s EXCEPT !.sockets = o.ss])]]
                     /\ socket_log' = [socket_log EXCEPT ![c] =
                           [n \in AllSockNames |->
                               [NoSocketLog[n] EXCEPT !.opened =
                                   IF n \in SessSockNames THEN ~o.ss[n].null
                                   ELSE ~o.cs[n].null]]]
                     /\ http' = IF o.res = "ok" THEN Sent(post) ELSE http
                     /\ rtsp' = IF o.res = "ok"
                                THEN [pc |-> "http", h |-> h, c |-> c,
                                      resp |-> "none"]
                                ELSE IdleRtsp
    /\ UNCHANGED <<factoryVars, lifeVars, sessions, old_sessions, messages, nsetup, nmsg,
                   mounts, server_signals, factory_signal, mutators,
                   rtsp_clients, media, removal, events, sent, relayed, error, host>>

\* what curl_request and the registry can answer
Responses == {"fail", "notobj", "dup", "code", "ok"}

\* the branch the closure takes on a response:
\*   "log"        the request failed or the answer is no JSON object
\*   "duplicate"  code 11000
\*   "none"       another code that is not 0
\*   "publish"    code 0
RegistryBranchFailOpen(resp) ==
    CASE resp = "fail" -> "publish"
      [] resp = "notobj" -> "log"
      [] resp = "dup" -> "duplicate"
      [] resp = "code" -> "none"
      [] OTHER -> "publish"

RegistryBranch(resp) ==
    CASE resp \in {"fail", "notobj"} -> "log"
      [] resp = "dup" -> "duplicate"
      [] resp = "code" -> "none"
      [] OTHER -> "publish"

\* janus_source_hangup_media called by the closure: the session and the
\* events it pushes
HangupInline(h, s) ==
    IF s.destroyed # 0 THEN [s |-> s, ev |-> <<>>]
    ELSE IF HangupProceeds(s.hangingup)
    THEN [s |-> [s EXCEPT !.hangingup = @ + 1, !.audio_active = TRUE,
                          !.video_active = TRUE, !.bitrate = 0],
          ev |-> <<Event(h, "done", 0, FALSE)>>]
    ELSE [s |-> [s EXCEPT !.hangingup = @ + 1], ev |-> <<>>]

\* janus_source_send_id_error: json_decref(event) frees the event before
\* gateway->push_event is given it.  The gateway gets the event as built
\* ("intact"), or finds no JSON object in the freed block and refuses it
\* ("refused"), or the process crashes ("crash").
janus_source_send_id_error(h, s) ==
    IF s.destroyed # 0 THEN {[ev |-> <<>>, crash |-> FALSE]}
    ELSE {[ev |-> <<Event(h, "error", JANUS_SOURCE_ERROR_INVALID_URL_ID, FALSE)>>,
           crash |-> FALSE],
          [ev |-> <<>>, crash |-> FALSE],
          [ev |-> <<>>, crash |-> TRUE]}

\* the closure from the return of curl_request on
RtspFinish(resp) ==
    /\ proc = "running"
    /\ rtsp.pc = "http"
    /\ Room(2)
    /\ rtsp' = [IdleRtsp EXCEPT !.resp = resp]
    /\ LET h == rtsp.h
           c == rtsp.c
           s == sess[h]
           branch == RegistryBranch(resp)
       IN CASE branch = "duplicate" ->
                 LET hu == HangupInline(h, s)
                 IN \E o \in janus_source_send_id_error(h, hu.s) :
                       /\ sess' = [sess EXCEPT ![h] = hu.s]
                       /\ events' = events \o hu.ev \o o.ev
                       /\ proc' = IF o.crash THEN "aborted" ELSE proc
                       /\ UNCHANGED <<cbd, rtspVars>>
            [] branch = "publish" ->
                 \/ /\ cbd' = [cbd EXCEPT ![c].id_media_configure_cb = 1,
                                          ![c].id_client_connected_cb = 1]
                    /\ factory_signal' = [factory_signal EXCEPT ![c] = TRUE]
                    /\ server_signals' = server_signals \cup {c}
                    /\ mounts' = janus_source_rtsp_add_mountpoint(mounts, c, s.id)
                    /\ mutators' = mutators \cup {"rtsp"}
                    /\ sess' = [sess EXCEPT ![h].db_entry_session_id = "db1"]
                    /\ UNCHANGED <<events, proc, rtsp_clients, media,
                                   socket_log, removal>>
                 \/ \* the pipeline context was freed meanwhile
                    /\ cbd[c].st = "freed"
                    /\ proc' = "aborted"
                    /\ UNCHANGED <<sess, cbd, rtspVars, events>>
            [] OTHER -> UNCHANGED <<sess, cbd, rtspVars, events, proc>>
    /\ UNCHANGED <<pp, sockFails, factoryVars, lifeVars, sessions, old_sessions,
                   messages, rtsp_async_queue, nsetup, nmsg, http, sent, relayed, error,
                   host>>

(***************************************************************************)
(* The RTSP clients.  The server handles their connections and requests on *)
(* the RTSP thread, between two closures.                                  *)
(***************************************************************************)
\* the sum of the values of f over the set S
RECURSIVE Sum(_, _)
Sum(f, S) ==
    IF S = {} THEN 0
    ELSE LET x == CHOOSE y \in S : TRUE IN f[x] + Sum(f, S \ {x})

\* what is left unchanged by every action of an RTSP client
ClientFrame ==
    UNCHANGED <<pp, sockFails, factoryVars, lifeVars, sess, sessions, old_sessions,
                queueVars, mounts, server_signals, factory_signal, mutators,
                removal, outVars, host>>

\* a client connects: the server emits client-connected, and the
\* client_connected_cb of every context connected to it connects its
\* pause-request and setup-request handlers on the new client
client_connected_cb(k) ==
    /\ proc = "running"
    /\ rtsp.pc = "idle"
    /\ rtsp_clients[k].st = "none"
    /\ rtsp_clients' = [rtsp_clients EXCEPT ![k] =
                          [@ EXCEPT !.st = "open", !.handlers = server_signals]]
    /\ UNCHANGED <<proc, cbd, media, socket_log>>
    /\ ClientFrame

\* rtsp_media_target_state_cb(media, state, data) without the disconnection
TargetStateKeepsHandler(m, state, data) ==
    IF state = "PAUSED"
    THEN [media |-> [m EXCEPT
                       !.socket = {n \in CbdSockNames : ~data.sockets[n].null},
                       !.close_socket = FALSE,
                       !.injections = @ + 1],
          data |-> data]
    ELSE [media |-> m, data |-> data]

\* rtsp_media_target_state_cb(media, state, data): on PAUSED,
\* set_custom_socket gives the four server sockets of the context to the
\* udpsrc elements (a socket that is NULL is skipped) and sets their
\* close-socket to FALSE; then the handler disconnects itself
rtsp_media_target_state_cb(m, state, data) ==
    IF state = "PAUSED"
    THEN LET connected == data.id_rtsp_media_target_state_cb > 0
         IN [media |-> [m EXCEPT
                          !.socket = {n \in CbdSockNames : ~data.sockets[n].null},
                          !.close_socket = FALSE,
                          !.injections = @ + 1,
                          !.target_state = IF connected THEN 0 ELSE @],
             data |-> [data EXCEPT !.id_rtsp_media_target_state_cb = 0]]
    ELSE [media |-> m, data |-> data]

\* media_configure_cb(factory, media, data) where data is cbd[c]
media_configure_cb(m, data, c) ==
    [media |-> [m EXCEPT !.target_state = c],
     data |-> [data EXCEPT !.id_rtsp_media_target_state_cb = 1]]

\* the media m emits target-state with state: the handler connected to it
\* runs on its context
set_target_state(m, cb, state) ==
    IF m.target_state = 0 THEN [media |-> m, cbd |-> cb]
    ELSE LET c == m.target_state
             r == rtsp_media_target_state_cb(m, state, cb[c])
         IN [media |-> r.media, cbd |-> [cb EXCEPT ![c] = r.data]]

\* the media of factory f when a client asks for it: a factory without media
\* creates one and emits media-configure, and the preparation of the media
\* sets its target state to PAUSED
find_media(md, cb, f) ==
    IF md[f].prepared THEN [media |-> md[f], cbd |-> cb]
    ELSE LET r == IF factory_signal[f]
                  THEN media_configure_cb(NoMedia, cb[f], f)
                  ELSE [media |-> NoMedia, data |-> cb[f]]
             p == set_target_state(r.media, [cb EXCEPT ![f] = r.data],
                                   "PAUSED")
         IN [media |-> [p.media EXCEPT !.prepared = TRUE], cbd |-> p.cbd]

\* a successful SETUP of client k on the mount point at path p, and the
\* setup-request handlers it runs.  A handler whose context was freed uses
\* freed memory: the process crashes or the write lands in the freed block.
ClientSetup(k, p) ==
    /\ proc = "running"
    /\ rtsp.pc = "idle"
    /\ rtsp_clients[k].st = "open"
    /\ rtsp_clients[k].nreq < MaxRequests
    /\ mounts[p] # 0
    /\ rtsp_clients[k].state # "playing"
    /\ rtsp_clients[k].session \in {"none", p}
    /\ LET cl == rtsp_clients[k]
           f == mounts[p]
           H == cl.handlers
           cb == [c \in H |-> client_setup_request_cb(cbd[c].clients_list, k)]
           freed == \/ \E c \in H : cbd[c].st = "freed"
                    \/ ~media[f].prepared /\ factory_signal[f]
                         /\ cbd[f].st = "freed"
       IN \/ /\ rtsp_clients' = [rtsp_clients EXCEPT ![k] =
                    [cl EXCEPT !.session = p, !.factory = f, !.state = "ready",
                               !.active = TRUE, !.nreq = @ + 1,
                               !.refs = @ + Sum([c \in H |-> cb[c].refs], H)]]
             /\ LET fm == find_media(media, cbd, f)
                IN /\ cbd' = [c \in CbdIds |->
                               IF c \in H
                               THEN [fm.cbd[c] EXCEPT
                                       !.clients_list = cb[c].list]
                               ELSE fm.cbd[c]]
                   /\ media' = [media EXCEPT ![f] = fm.media]
             /\ proc' = proc
          \/ /\ freed
             /\ proc' = "aborted"
             /\ UNCHANGED <<rtsp_clients, cbd, media>>
    /\ UNCHANGED socket_log
    /\ ClientFrame

\* a successful PLAY of client k: the target state of its media becomes
\* PLAYING; the plugin connects no handler to the request
ClientPlay(k) ==
    /\ proc = "running"
    /\ rtsp.pc = "idle"
    /\ rtsp_clients[k].st = "open"
    /\ rtsp_clients[k].nreq < MaxRequests
    /\ rtsp_clients[k].state = "ready"
    /\ rtsp_clients' = [rtsp_clients EXCEPT ![k] =
                          [@ EXCEPT !.state = "playing", !.nreq = @ + 1]]
    /\ LET f == rtsp_clients[k].factory
           ts == set_target_state(media[f], cbd, "PLAYING")
       IN /\ media' = [media EXCEPT ![f] = ts.media]
          /\ cbd' = ts.cbd
    /\ UNCHANGED <<proc, socket_log>>
    /\ ClientFrame

\* a successful PAUSE of client k: the target state of its media becomes
\* PAUSED, then the pause-request handlers run
ClientPause(k) ==
    /\ proc = "running"
    /\ rtsp.pc = "idle"
    /\ rtsp_clients[k].st = "open"
    /\ rtsp_clients[k].nreq < MaxRequests
    /\ rtsp_clients[k].state = "playing"
    /\ LET cl == rtsp_clients[k]
           H == cl.handlers
           cb == [c \in H |-> client_pause_request_cb(cbd[c].clients_list, k)]
           f == cl.factory
           ts == set_target_state(media[f], cbd, "PAUSED")
       IN \/ /\ rtsp_clients' = [rtsp_clients EXCEPT ![k] =
                    [cl EXCEPT !.state = "ready", !.active = FALSE,
                               !.nreq = @ + 1,
                               !.refs = @ + Sum([c \in H |-> cb[c].refs], H)]]
             /\ cbd' = [c \in CbdIds |->
                          IF c \in H
                          THEN [ts.cbd[c] EXCEPT !.clients_list = cb[c].list]
                          ELSE ts.cbd[c]]
             /\ media' = [media EXCEPT ![f] = ts.media]
             /\ proc' = proc
          \/ /\ \E c \in H : cbd[c].st = "freed"
             /\ proc' = "aborted"
             /\ UNCHANGED <<rtsp_clients, cbd, media>>
    /\ UNCHANGED socket_log
    /\ ClientFrame

\* a TEARDOWN sent by client k: its session leaves the session pool; the
\* plugin connects no handler to it
ClientTeardown(k) ==
    /\ proc = "running"
    /\ rtsp.pc = "idle"
    /\ rtsp_clients[k].st = "open"
    /\ rtsp_clients[k].nreq < MaxRequests
    /\ rtsp_clients[k].session # "none"
    /\ LET cl2 == [rtsp_clients EXCEPT ![k] =
                     [@ EXCEPT !.session = "none", !.factory = 0,
                               !.state = "init", !.active = FALSE,
                               !.nreq = @ + 1]]
           rel == ReleaseMedia(media, socket_log, cl2)
       IN /\ rtsp_clients' = cl2
          /\ media' = rel.media
          /\ socket_log' = rel.socket_log
    /\ UNCHANGED <<proc, cbd>>
    /\ ClientFrame

(***************************************************************************)
(* The plugin.                                                             *)
(***************************************************************************)
Init ==
    /\ pp = ports_pool_init(udp_min_port, udp_min_port + PoolWidth)
    /\ sockFails = 0
    /\ fsock = [k \in Slots |-> NoSock]
    /\ ret = NoRet
    /\ ncalls = 0
    /\ PluginInit
    /\ thread = ThreadsUp

Next ==
    \/ \E h \in Handles : janus_source_create_session(h)
    \/ \E h \in Handles, m \in Messages : janus_source_handle_message(h, m)
    \/ janus_source_handler
    \/ \E h \in Handles : janus_source_setup_media(h)
    \/ RtspBegin
    \/ \E resp \in Responses : RtspFinish(resp)
    \/ \E h \in Handles, video \in BOOLEAN : janus_source_incoming_rtp(h, video)
    \/ \E h \in Handles, video \in BOOLEAN : janus_source_incoming_rtcp(h, video)
    \/ \E t \in HostThreads, h \in Handles : HangupEnter(t, h)
    \/ \E t \in HostThreads : HangupPush(t)
    \/ \E h \in Handles : DestroyNoSession(h)
    \/ \E t \in HostThreads, h \in Handles : DestroyClose(t, h)
    \/ \E t \in HostThreads : DestroyMark(t)

Spec == Init /\ [][Next]_vars

\* ClientSpec: the plugin and the RTSP clients of its server
ClientNext ==
    \/ Next
    \/ \E k \in RtspClients : client_connected_cb(k)
    \/ \E k \in RtspClients, p \in Ids : ClientSetup(k, p)
    \/ \E k \in RtspClients : ClientPlay(k)
    \/ \E k \in RtspClients : ClientPause(k)
    \/ \E k \in RtspClients : ClientTeardown(k)

ClientSpec == Init /\ [][ClientNext]_vars

\* MessageSpec: the plugin with a gateway that calls handle_message up to
\* MaxQueued times
MessageNext ==
    \/ \E h \in Handles, m \in Messages : HandleMessage(h, m, MaxQueued)
    \/ Next

MessageSpec == Init /\ [][MessageNext]_vars

\* the sockets one provisioning binds (each takes a port of the pool)
ServerSockets ==
    {i \in 1 .. Len(ProvisionSteps) : ProvisionSteps[i].peer = ""}

\* ProvisionSpec: the plugin started on a port range that may be one port
\* short of what the sockets of a session need, in an environment that may
\* fail a bind or a connect
ProvisionInit ==
    /\ \E w \in {Cardinality(ServerSockets) - 1, PoolWidth} :
          pp = ports_pool_init(udp_min_port, udp_min_port + w)
    /\ sockFails \in 0 .. MaxSockFailures
    /\ fsock = [k \in Slots |-> NoSock]
    /\ ret = NoRet
    /\ ncalls = 0
    /\ PluginInit
    /\ thread = ThreadsUp

ProvisionSpec == ProvisionInit /\ [][Next]_vars

(***************************************************************************)
(* janus_source_destroy and the plugin threads.                            *)
(*   thread.rtsp  "start"    janus_source_rtsp_server_thread not yet run   *)
(*                "setup"    rtsp_server_data allocated, no main loop yet  *)
(*                "created"  rtsp_server_data->loop set, not yet running   *)
(*                "running"  inside g_main_loop_run                        *)
(*                "quit"     inside g_main_loop_run, told to quit          *)
(*                "exited"                                                 *)
(*                "refused"  returned at once: the plugin was stopping     *)
(*   the other threads are in their "loop" or have "exited"                *)
(***************************************************************************)
\* the message janus_source_destroy pushes to wake the handler
exit_message == [handle |-> 0, transaction |-> 0, message |-> "exit"]

Step(name, h) == [step |-> name, h |-> h]

\* janus_source_destroy has done the step prev last
At(prev) ==
    /\ proc = "running"
    /\ shutdown # <<>>
    /\ shutdown[Len(shutdown)].step = prev

\* the sessions of the map g_hash_table_foreach has not passed to
\* janus_source_close_session_func yet
ToClose ==
    sessions \ {shutdown[i].h :
                   i \in {j \in DOMAIN shutdown :
                             shutdown[j].step = "close_session"}}

\* what a step of janus_source_destroy leaves unchanged unless it says so
DestroyFrame ==
    UNCHANGED <<sockFails, factoryVars, old_sessions, rtsp_async_queue, rtsp,
                nsetup, nmsg, events, sent, relayed, error, host, now>>

\* janus_source_destroy: the flag and the exit message
DestroyBegin ==
    /\ proc = "running"
    /\ initialized = 1
    /\ shutdown = <<>>
    /\ stopping' = 1
    /\ messages' = Append(messages, exit_message)
    /\ shutdown' = <<Step("stopping", 0)>>
    /\ UNCHANGED <<pp, proc, sess, sessions, cbd, rtspVars, http, initialized,
                   thread>>
    /\ DestroyFrame

\* g_thread_join(th) as the step name, after the step prev
DestroyJoin(prev, th, name) ==
    /\ At(prev)
    /\ thread[th] = "exited"
    /\ shutdown' = Append(shutdown, Step(name, 0))
    /\ UNCHANGED <<pp, proc, sess, sessions, cbd, messages, rtspVars, http,
                   initialized, stopping, thread>>
    /\ DestroyFrame

\* g_hash_table_foreach(sessions, janus_source_close_session_func): one call
DestroyCloseSession(h) ==
    /\ At("join_handler") \/ At("close_session")
    /\ h \in ToClose
    /\ LET r == StatusDelete(sess[h].db_entry_session_id)
       IN http' = IF http[r] < MaxHttp THEN Sent(r) ELSE http
    /\ \E o \in janus_source_close_session(h) :
          /\ pp' = o.st.pp
          /\ cbd' = o.st.cbd
          /\ mounts' = o.st.mounts
          /\ server_signals' = o.st.server_signals
          /\ factory_signal' = o.st.factory_signal
          /\ rtsp_clients' = o.st.rtsp_clients
          /\ media' = o.st.media
          /\ socket_log' = o.st.socket_log
          /\ removal' = o.st.removal
          /\ sess' = [sess EXCEPT ![h] = o.s]
          /\ proc' = IF o.crash THEN "aborted" ELSE proc
          /\ mutators' = IF o.mutated THEN mutators \cup {"host"} ELSE mutators
    /\ shutdown' = Append(shutdown, Step("close_session", h))
    /\ UNCHANGED <<sessions, messages, initialized, stopping, thread>>
    /\ DestroyFrame

\* socket_utils_destroy: ports_pool_free(pp), as soon as the sessions are
\* closed
DestroySocketUtils ==
    /\ At("join_handler") \/ At("close_session")
    /\ ToClose = {}
    /\ shutdown' = Append(shutdown, Step("socket_utils_destroy", 0))
    /\ UNCHANGED <<pp, proc, sess, sessions, cbd, messages, rtspVars, http,
                   initialized, stopping, thread>>
    /\ DestroyFrame

\* janus_source_deattach_rtsp_queue_callback(rtsp_server_data): the RTSP
\* thread allocates rtsp_server_data, which is NULL until then
DestroyDeattach ==
    /\ At("socket_utils_destroy")
    /\ IF thread.rtsp \in {"start", "refused"}
       THEN /\ proc' = "aborted"
            /\ UNCHANGED shutdown
       ELSE /\ shutdown' = Append(shutdown, Step("deattach_rtsp_queue", 0))
            /\ UNCHANGED proc
    /\ UNCHANGED <<pp, sess, sessions, cbd, messages, rtspVars, http,
                   initialized, stopping, thread>>
    /\ UNCHANGED <<sockFails, factoryVars, old_sessions, rtsp_async_queue, rtsp,
                   nsetup, nmsg, events, sent, relayed, error, host, now>>

\* janus_source_rtsp_clean_and_quit_main_loop: g_main_loop_quit only when
\* g_main_loop_is_running, which is FALSE for no loop and for a loop that
\* g_main_loop_run has not been called on yet
janus_source_rtsp_clean_and_quit_main_loop ==
    /\ At("deattach_rtsp_queue")
    /\ thread' = IF thread.rtsp = "running"
                 THEN [thread EXCEPT !.rtsp = "quit"] ELSE thread
    /\ shutdown' = Append(shutdown, Step("quit_main_loop", 0))
    /\ UNCHANGED <<pp, proc, sess, sessions, cbd, messages, rtspVars, http,
                   initialized, stopping>>
    /\ DestroyFrame

\* janus_source_remove_pid_from_registry, after the keepalive thread is joined
DestroyRemovePid ==
    /\ At("join_keepalive")
    /\ shutdown' = Append(shutdown, Step("remove_pid", 0))
    /\ http' = IF http[RemovePid] < MaxHttp THEN Sent(RemovePid) ELSE http
    /\ UNCHANGED <<pp, proc, sess, sessions, cbd, messages, rtspVars,
                   initialized, stopping, thread>>
    /\ DestroyFrame

\* g_hash_table_destroy(sessions) and g_async_queue_unref(messages)
DestroySessionsMap ==
    /\ At("join_watchdog")
    /\ sessions' = {}
    /\ messages' = <<>>
    /\ shutdown' = Append(shutdown, Step("sessions_destroy", 0))
    /\ UNCHANGED <<pp, proc, sess, cbd, rtspVars, http, initialized, stopping,
                   thread>>
    /\ DestroyFrame

\* the end of janus_source_destroy
DestroyReturn ==
    /\ At("sessions_destroy")
    /\ initialized' = 0
    /\ stopping' = 0
    /\ shutdown' = Append(shutdown, Step("return", 0))
    /\ UNCHANGED <<pp, proc, sess, sessions, cbd, messages, rtspVars, http,
                   thread>>
    /\ DestroyFrame

janus_source_destroy ==
    \/ DestroyBegin
    \/ DestroyJoin("stopping", "handler", "join_handler")
    \/ \E h \in Handles : DestroyCloseSession(h)
    \/ DestroySocketUtils
    \/ DestroyDeattach
    \/ janus_source_rtsp_clean_and_quit_main_loop
    \/ DestroyJoin("quit_main_loop", "rtsp", "join_rtsp")
    \/ DestroyJoin("join_rtsp", "keepalive", "join_keepalive")
    \/ DestroyRemovePid
    \/ DestroyJoin("remove_pid", "watchdog", "join_watchdog")
    \/ DestroySessionsMap
    \/ DestroyReturn

\* what a step of a thread that only moves the thread leaves unchanged
ThreadFrame ==
    UNCHANGED <<poolVars, factoryVars, sessVars, rtsp_async_queue, rtsp,
                nsetup, nmsg, rtspVars, outVars, host, now, initialized,
                stopping, shutdown>>

\* the loops of the handler, keepalive and watchdog threads test the flags
\* at their head; the handler also leaves when it pops the exit message
LoopExit(th) ==
    /\ thread[th] = "loop"
    /\ initialized = 0 \/ stopping = 1
    /\ thread' = [thread EXCEPT ![th] = "exited"]
    /\ UNCHANGED messages
    /\ ThreadFrame

\* one turn of the loop of janus_source_keepalive
janus_source_keepalive ==
    /\ proc = "running"
    /\ thread.keepalive = "loop"
    /\ initialized = 1 /\ stopping = 0
    /\ http[KeepalivePost] < MaxHttp
    /\ http' = Sent(KeepalivePost)
    /\ UNCHANGED <<poolVars, factoryVars, sessVars, queueVars, rtspVars, events,
                   sent, relayed, error, host, lifeVars>>

HandlerPopsExit ==
    /\ thread.handler = "loop"
    /\ messages # <<>>
    /\ Head(messages) = exit_message
    /\ messages' = Tail(messages)
    /\ thread' = [thread EXCEPT !.handler = "exited"]
    /\ ThreadFrame

\* janus_source_rtsp_server_thread: it tests the flags once, when it starts
janus_source_rtsp_server_thread ==
    /\ proc = "running"
    /\ thread.rtsp \in {"start", "setup", "created", "quit"}
    /\ thread' = [thread EXCEPT !.rtsp =
                    CASE @ = "start" ->
                            IF stopping = 1 \/ initialized = 0
                            THEN "refused" ELSE "setup"
                      [] @ = "setup" -> "created"
                      [] @ = "created" -> "running"
                      [] @ = "quit" -> "exited"]
    /\ UNCHANGED messages
    /\ ThreadFrame

\* ShutdownSpec: the plugin from the return of janus_source_init, when the
\* RTSP thread may not have run yet, and a gateway that creates sessions and
\* sets up their media once the RTSP server is up, and then calls
\* janus_source_destroy
ShutdownInit ==
    /\ pp = ports_pool_init(udp_min_port, udp_min_port + PoolWidth)
    /\ sockFails = 0
    /\ fsock = [k \in Slots |-> NoSock]
    /\ ret = NoRet
    /\ ncalls = 0
    /\ PluginInit
    /\ \E p \in {"start", "running"} : thread = [ThreadsUp EXCEPT !.rtsp = p]

ShutdownNext ==
    \/ /\ stopping = 0
       /\ thread.rtsp = "running"
       /\ \/ \E h \in Handles : janus_source_create_session(h)
          \/ \E h \in Handles : janus_source_setup_media(h)
          \/ RtspBegin
          \/ \E resp \in Responses : RtspFinish(resp)
    \/ janus_source_destroy
    \/ \E th \in {"handler", "keepalive", "watchdog"} : LoopExit(th)
    \/ HandlerPopsExit
    \/ janus_source_keepalive
    \/ janus_source_rtsp_server_thread

ShutdownSpec == ShutdownInit /\ [][ShutdownNext]_vars

\* ShutdownLive: every thread that can take a step takes it, and so does
\* janus_source_destroy
ShutdownLive ==
    /\ ShutdownSpec
    /\ WF_vars(janus_source_destroy)
    /\ \A th \in {"handler", "keepalive", "watchdog"} : WF_vars(LoopExit(th))
    /\ WF_vars(janus_source_rtsp_server_thread)

(***************************************************************************)
(* The watchdog and the lazy free of destroyed sessions.                   *)
(***************************************************************************)
\* the age, in seconds, at which the watchdog frees a destroyed session
WatchdogAge == 5

\* the monotonic clock is followed up to this time
MaxTime == 7

\* now - session->destroyed >= 5 * G_USEC_PER_SEC, without the age
ExpiredAtOnce(n, session) == n - session.destroyed >= 0

\* now - session->destroyed >= 5 * G_USEC_PER_SEC
Expired(n, session) == n - session.destroyed >= WatchdogAge

\* one second passes
Tick ==
    /\ now < MaxTime
    /\ now' = now + 1
    /\ UNCHANGED <<poolVars, factoryVars, sessVars, queueVars, rtspVars,
                   outVars, host, initialized, stopping, thread, shutdown>>

\* one pass of the loop of janus_source_watchdog over old_sessions
janus_source_watchdog ==
    /\ proc = "running"
    /\ thread.watchdog = "loop"
    /\ initialized = 1 /\ stopping = 0
    /\ LET old == {old_sessions[i] : i \in DOMAIN old_sessions}
           rm == {h \in old : Expired(now, sess[h])}
       IN /\ old_sessions' = SelectSeq(old_sessions, LAMBDA h : h \notin rm)
          /\ sess' = [h \in Handles |->
                        IF h \in rm THEN [sess[h] EXCEPT !.mem = "freed"]
                        ELSE sess[h]]
    /\ UNCHANGED <<poolVars, factoryVars, sessions, cbd, queueVars, rtspVars,
                   outVars, host, lifeVars>>

\* WatchdogSpec: the watchdog, the clock, and a gateway that creates sessions,
\* sets up and hangs up their media and destroys them, and makes no call on a
\* handle whose session was freed
WatchdogNext ==
    \/ \E h \in Handles : janus_source_create_session(h)
    \/ \E h \in Handles : sess[h].mem = "live" /\ janus_source_setup_media(h)
    \/ \E t \in HostThreads, h \in Handles :
          sess[h].mem = "live" /\ HangupEnter(t, h)
    \/ \E t \in HostThreads : HangupPush(t)
    \/ \E t \in HostThreads, h \in Handles :
          sess[h].mem = "live" /\ DestroyClose(t, h)
    \/ \E t \in HostThreads : DestroyMark(t)
    \/ Tick
    \/ janus_source_watchdog

WatchdogSpec ==
    /\ Init
    /\ [][WatchdogNext]_vars
    /\ WF_vars(Tick)
    /\ WF_vars(janus_source_watchdog)

(***************************************************************************)
(* ValidationSpec: the message handler and a gateway that also sends       *)
(* messages the validation of the handler refuses.                         *)
(***************************************************************************)
\* no message, a message that is not an object, an audio that is not a
\* boolean next to a valid id, a negative bitrate, and an object with none
\* of the attributes
InvalidMessages ==
    { [Msg("absent", "absent", -1, "absent", "absent") EXCEPT !.kind = "null"],
      [Msg("absent", "absent", -1, "absent", "absent") EXCEPT !.kind = "notobj"],
      Msg("bad", "absent", -1, "cam1", "absent"),
      Msg("true", "absent", -2, "absent", "offer"),
      Msg("absent", "absent", -1, "absent", "absent") }

ValidationNext ==
    \/ \E h \in Handles : janus_source_create_session(h)
    \/ \E h \in Handles, m \in Messages \cup InvalidMessages :
          HandleMessage(h, m, MaxQueued)
    \/ janus_source_handler
    \/ \E t \in HostThreads, h \in Handles : HangupEnter(t, h)
    \/ \E t \in HostThreads : HangupPush(t)
    \/ \E t \in HostThreads, h \in Handles : DestroyClose(t, h)
    \/ \E t \in HostThreads : DestroyMark(t)

ValidationSpec == Init /\ [][ValidationNext]_vars

(***************************************************************************)
(* SdpSpec: codec negotiation on the offers of a peer.  An offer has a     *)
(* video line of up to MaxPts payload types out of VideoPts, an rtpmap     *)
(* line for each of them, in the order of their numbers, and an audio line *)
(* with opus or none.  ret holds the SDP under negotiation:                *)
(*   op         the last function applied: "offer" for none                *)
(*   list       codec_priority_list                                        *)
(*   offer      the SDP of the peer                                        *)
(*   sdp        the SDP now, orig the SDP the last function was given      *)
(*   preferred  what the last selection returned                           *)
(*   codec, codec_pt  what the last negotiation stored in the session      *)
(* and ncalls counts the rewrites made.                                    *)
(***************************************************************************)
MaxPts == 3
MaxRewrites == 2
VideoPts == <<96, 100, 107>>
\* the audio line of an offer with opus
OpusLine == <<111>>
VideoNames == {"VP8", "H264", "VP9", "rtx"}

\* codec_priority_list after janus_source_parse_video_codec_priority; the
\* last one is the list of a configuration without the key
PriorityLists ==
    { <<"H264", "VP8">>, <<"VP8", "H264">>, <<"VP9", "INVALID">>,
      <<"INVALID", "INVALID">> }

Range(q) == {q[i] : i \in DOMAIN q}

\* the sequences of distinct video payload types of length n
LinesOf(n) ==
    {q \in [1 .. n -> Range(VideoPts)] : \A i, j \in 1 .. n : q[i] = q[j] => i = j}

\* the rtpmap lines of an offer with the video line and the names given
RtpmapLines(line, names, audio) ==
    LET onLine == SelectSeq(VideoPts, LAMBDA p : p \in Range(line))
    IN [i \in DOMAIN onLine |-> Rtpmap(onLine[i], names[onLine[i]])]
       \o [i \in DOMAIN audio |-> Rtpmap(audio[i], "opus")]

Offers ==
    { Sdp("sendrecv", line, audio, RtpmapLines(line, names, audio)) :
        line \in UNION {LinesOf(n) : n \in 0 .. MaxPts},
        names \in [Range(VideoPts) -> VideoNames],
        audio \in {<<>>, OpusLine} }

SdpInit ==
    /\ pp = ports_pool_init(udp_min_port, udp_min_port + PoolWidth)
    /\ sockFails = 0
    /\ fsock = [k \in Slots |-> NoSock]
    /\ \E offer \in Offers, list \in PriorityLists :
          ret = [op |-> "offer", list |-> list, offer |-> offer,
                 sdp |-> offer, orig |-> offer,
                 preferred |-> "INVALID",
                 codec |-> [video |-> "INVALID", audio |-> "INVALID"],
                 codec_pt |-> [video |-> -1, audio |-> -1]]
    /\ ncalls = 0
    /\ PluginInit
    /\ thread = ThreadsUp

SdpFrame ==
    UNCHANGED <<poolVars, fsock, sessVars, queueVars, rtspVars, outVars, host,
                lifeVars>>

\* preferred_codec = janus_source_select_video_codec_by_priority_list(sdp)
SelectVideoCodec ==
    /\ ret.op # "selected"
    /\ ncalls < MaxRewrites
    /\ ret' = [ret EXCEPT
                 !.op = "selected",
                 !.preferred =
                     janus_source_select_video_codec_by_priority_list(ret.sdp,
                                                                      ret.list)]
    /\ UNCHANGED ncalls
    /\ SdpFrame

\* sdp = sdp_set_video_codec(sdp, preferred_codec)
SetVideoCodec ==
    /\ ret.op = "selected"
    /\ ret' = [ret EXCEPT
                 !.op = "rewritten",
                 !.orig = ret.sdp,
                 !.sdp = sdp_set_video_codec(ret.sdp, ret.preferred)]
    /\ ncalls' = ncalls + 1
    /\ SdpFrame

\* janus_source_do_codec_negotiation on the SDP
DoCodecNegotiation ==
    /\ ret.op # "selected"
    /\ ncalls < MaxRewrites
    /\ LET n == janus_source_do_codec_negotiation(ret.sdp, ret.list)
       IN ret' = [ret EXCEPT
                    !.op = "negotiated",
                    !.orig = ret.sdp,
                    !.sdp = n.sdp,
                    !.preferred =
                        janus_source_select_video_codec_by_priority_list(
                            ret.sdp, ret.list),
                    !.codec = n.codec,
                    !.codec_pt = n.codec_pt]
    /\ ncalls' = ncalls + 1
    /\ SdpFrame

SdpNext ==
    \/ SelectVideoCodec
    \/ SetVideoCodec
    \/ DoCodecNegotiation

SdpSpec == SdpInit /\ [][SdpNext]_vars

(***************************************************************************)
(* OfferSpec: the plugin and a peer that sends offers and answers of       *)
(* several kinds.                                                          *)
(***************************************************************************)
\* VP8 on 96 before H264 on 107, and opus
TwoCodecOffer ==
    Sdp("sendrecv", <<96, 107>>, OpusLine,
        <<Rtpmap(96, "VP8"), Rtpmap(107, "H264"), Rtpmap(111, "opus")>>)

\* VP8 on 100 with red, ulpfec and rtx, send only
FecOffer ==
    Sdp("sendonly", <<100, 116, 117, 96>>, <<>>,
        <<Rtpmap(100, "VP8"), Rtpmap(116, "red"), Rtpmap(117, "ulpfec"),
          Rtpmap(96, "rtx")>>)

\* an SDP with no m= line
NoMediaOffer == Sdp("sendrecv", <<>>, <<>>, <<>>)

Jsep(type, body) ==
    [Msg("absent", "absent", -1, "absent", type) EXCEPT !.body = body]

OfferMessages ==
    { Msg("absent", "absent", -1, "cam1", "absent"),
      Jsep("offer", TwoCodecOffer),
      Jsep("answer", [TwoCodecOffer EXCEPT !.direction = "recvonly"]),
      Jsep("offer", FecOffer),
      Jsep("offer", NoMediaOffer) }

OfferNext ==
    \/ \E h \in Handles : janus_source_create_session(h)
    \/ \E h \in Handles, m \in OfferMessages : HandleMessage(h, m, MaxQueued)
    \/ janus_source_handler
    \/ \E h \in Handles : janus_source_setup_media(h)
    \/ RtspBegin
    \/ \E resp \in Responses : RtspFinish(resp)

OfferSpec == Init /\ [][OfferNext]_vars

(***************************************************************************)
(* SlowLinkSpec: the gateway reports slow links on sessions whose bitrate  *)
(* cap the peer sets with messages.                                        *)
(***************************************************************************)
\* slow_link calls the gateway makes on one handle
MaxSlowLinks == 4

\* the bitrate a session without a cap is halved from, and the lowest
\* bitrate janus_source_slow_link sets
SlowLinkStart == 512 * 1024
SlowLinkLowest == 64 * 1024

\* session->bitrate after the halving
HalvedBitrate(bitrate) ==
    LET half == (IF bitrate > 0 THEN bitrate ELSE SlowLinkStart) \div 2
    IN IF half < SlowLinkLowest THEN SlowLinkLowest ELSE half

\* the calls that lower the bitrate: the others only count
SlowLinkActs(s, uplink, video) ==
    /\ ~(uplink /\ ~video /\ ~s.audio_active)
    /\ ~(uplink /\ video /\ ~s.video_active)
    /\ video

janus_source_slow_link(h, uplink, video) ==
    /\ proc = "running"
    /\ stopping = 0 /\ initialized = 1
    /\ sess[h].mem = "live"
    /\ sess[h].slowlink_count < MaxSlowLinks
    /\ LET s == sess[h]
           bitrate == HalvedBitrate(s.bitrate)
       IN IF s.destroyed # 0
          THEN UNCHANGED <<sess, relayed, events>>
          ELSE IF SlowLinkActs(s, uplink, video)
          THEN /\ sess' = [sess EXCEPT ![h].slowlink_count = @ + 1,
                                       ![h].bitrate = bitrate]
               /\ relayed' = Append(relayed, Remb(h, bitrate))
               /\ events' = Append(events,
                     [Event(h, "slow_link", 0, FALSE) EXCEPT !.bitrate = bitrate])
          ELSE /\ sess' = [sess EXCEPT ![h].slowlink_count = @ + 1]
               /\ UNCHANGED <<relayed, events>>
    /\ UNCHANGED <<poolVars, factoryVars, lifeVars, sessions, old_sessions, cbd,
                   queueVars, rtspVars, http, sent, error, host>>

\* the caps the peer asks for, and a message that turns the video off
BitrateMessages ==
    { Msg("absent", "absent", b, "absent", "absent") :
         b \in {0, 128000, 130000, 300000} }
    \cup { Msg("absent", "false", -1, "absent", "absent") }

SlowLinkNext ==
    \/ \E h \in Handles : janus_source_create_session(h)
    \/ \E h \in Handles, m \in BitrateMessages : HandleMessage(h, m, MaxQueued)
    \/ janus_source_handler
    \/ \E h \in Handles, uplink, video \in BOOLEAN :
          janus_source_slow_link(h, uplink, video)
    \/ \E t \in HostThreads, h \in Handles : DestroyClose(t, h)
    \/ \E t \in HostThreads : DestroyMark(t)

SlowLinkSpec == Init /\ [][SlowLinkNext]_vars

(***************************************************************************)
(* Properties of the plugin (Spec).                                        *)
(***************************************************************************)
\* a session the gateway has created and not destroyed
Live(h) == sess[h].mem = "live" /\ sess[h].destroyed = 0

\* the open sockets of session h: those of session->sockets and those of
\* the pipeline context session->callback_data points to
SessionSockets(h) ==
    {[owner |-> h, name |-> n, port |-> sess[h].sockets[n].port] :
        n \in {x \in SessSockNames : ~sess[h].sockets_null
                                     /\ ~sess[h].sockets[x].null
                                     /\ sess[h].sockets[x].open}}
    \cup
    (LET c == sess[h].callback_data
     IN IF c = 0 \/ cbd[c].st # "live" THEN {}
        ELSE {[owner |-> h, name |-> n, port |-> cbd[c].sockets[n].port] :
                 n \in {x \in CbdSockNames : ~cbd[c].sockets[x].null
                                             /\ cbd[c].sockets[x].open}})

OpenSockets == UNION {SessionSockets(h) : h \in {x \in Handles : Live(x)}}

\* the ports session h holds
HeldPorts(h) == {k.port : k \in SessionSockets(h)}

\* C1: at every moment every open socket of every live session has a port
\* inside [udp_min_port, udp_max_port], and no two open sockets, of one
\* session or of different sessions, have the same port.
C1_OpenSocketsHaveDistinctPoolPorts ==
    \A a \in OpenSockets :
        /\ a.port \in pp.min .. pp.max
        /\ \A b \in OpenSockets : a # b => a.port # b.port

\* C2: when destroy_session(S) has closed the session (the RTSP thread being
\* idle), every port S held is free in the pool and each was returned
\* exactly once: the pool's count went down by the number of ports S held.
C2_PortsReturnedExactlyOnce ==
    [][\A t \in HostThreads, h \in Handles :
         (DestroyClose(t, h) /\ Live(h) /\ rtsp.pc = "idle")
             => /\ pp'.list \cap HeldPorts(h) = {}
                /\ pp'.count = pp.count - Cardinality(HeldPorts(h))]_vars

\* C3: every call that mutates the RTSP server (mountpoints, RTSP sessions
\* and clients, signal handlers of the server or of a factory) runs on the
\* RTSP thread, also the calls made for destroy_session.
C3_OnlyRtspThreadMutates == mutators \subseteq {"rtsp"}

\* C4: the RTSP-side mutations of one session never overlap: none is made
\* for a session while the RTSP thread is inside the closure that publishes
\* that session.
C4_MutationsDoNotOverlap ==
    [][\A t \in HostThreads, h \in Handles :
         (DestroyClose(t, h) /\ sess[h].callback_data # 0)
             => ~(rtsp.pc = "http" /\ rtsp.h = h)]_vars

\* C5: destroy_session on a session that is already destroyed is a no-op: it
\* changes no session or pool state, releases no port, sends no registry
\* request and touches no mountpoint or pipeline context.
C5_SecondDestroyIsNoOp ==
    [][\A t \in HostThreads, h \in Handles :
         (DestroyClose(t, h) /\ sess[h].destroyed # 0)
             => UNCHANGED <<sess, pp, http, mounts, cbd, server_signals,
                            factory_signal>>]_vars

\* the `done' events pushed for h, the events that answered a jsep of h, and
\* the threads that are about to push a `done' event for h
DoneEvents(h) ==
    Cardinality({i \in 1 .. Len(events) :
                    events[i].h = h /\ events[i].kind = "done"})
JsepEvents(h) ==
    Cardinality({i \in 1 .. Len(events) :
                    events[i].h = h /\ events[i].kind = "ok" /\ events[i].jsep})
Pushing(h) ==
    Cardinality({t \in HostThreads :
                    host[t].pc = "hangup_push" /\ host[t].h = h})

\* C6: hangup_media called again on a session, after or during another
\* call, has the effect of one call: one `done' event is pushed for each
\* time hangingup was zero (at creation, after a setup_media, after a jsep),
\* and one is pushed or about to be pushed whenever hangingup is set,
\* the call that finds hangingup set changes nothing else, and the call that
\* pushes the event resets audio_active, video_active and bitrate to true,
\* true and 0.
C6_HangupTwiceIsOnce ==
    /\ [](\A h \in Handles :
            /\ DoneEvents(h) + Pushing(h) <= 1 + nsetup[h] + JsepEvents(h)
            /\ sess[h].hangingup > 0 => DoneEvents(h) + Pushing(h) >= 1)
    /\ [][\A t \in HostThreads :
            /\ \A h \in Handles :
                 (HangupEnter(t, h) /\ sess[h].hangingup > 0)
                     => /\ UNCHANGED <<host, events>>
                        /\ sess'[h] = [sess[h] EXCEPT !.hangingup = @ + 1]
            /\ HangupPush(t)
                 => LET h == host[t].h
                    IN /\ events' = Append(events, Event(h, "done", 0, FALSE))
                       /\ sess'[h].audio_active /\ sess'[h].video_active
                       /\ sess'[h].bitrate = 0]_vars

\* two hangup_media calls have returned on a live session whose flags a
\* message had set to false, false and 128 (the message that set no id was
\* answered `ok'): one `done' event is out and the flags are reset
C6_TwoHangupsDone ==
    \E h \in Handles :
        /\ sess[h].hangingup = 2 /\ Live(h)
        /\ nsetup[h] = 0 /\ JsepEvents(h) = 0
        /\ \A t \in HostThreads : host[t].pc = "idle"
        /\ DoneEvents(h) = 1
        /\ sess[h].id = "null"
        /\ \E i \in 1 .. Len(events) : events[i].kind = "ok" /\ events[i].h = h
        /\ sess[h].audio_active /\ sess[h].video_active /\ sess[h].bitrate = 0

\* C7: incoming_rtp and incoming_rtcp send nothing on the client sockets of
\* a session that is destroyed or hanging up.
C7_NoSendWhileHangingUp ==
    [][\A h \in Handles, video \in BOOLEAN :
         ((janus_source_incoming_rtp(h, video)
             \/ janus_source_incoming_rtcp(h, video))
          /\ (sess[h].destroyed # 0 \/ sess[h].hangingup # 0))
             => sent' = sent]_vars

\* C8: when the registry answers code 11000 for a session that is not
\* destroyed, the session is hung up, an error event with code 414 is
\* pushed, no mountpoint is published and the session stays alive.
C8_DuplicateIdSurfaced ==
    [][(RtspFinish("dup") /\ Live(rtsp.h))
          => /\ sess'[rtsp.h].hangingup > 0
             /\ Len(events') > Len(events)
             /\ events'[Len(events')] =
                    Event(rtsp.h, "error", JANUS_SOURCE_ERROR_INVALID_URL_ID, FALSE)
             /\ mounts' = mounts
             /\ Live(rtsp.h)' /\ proc' = "running"]_vars

\* C9 amended: when the create request fails at the transport level nothing
\* happens but the log line: no mountpoint is published, no signal handler
\* is connected, no registry id is recorded and no event is pushed.
C9_TransportFailureNotPublished ==
    [][RtspFinish("fail")
          => UNCHANGED <<mounts, server_signals, factory_signal, cbd, sess,
                         events, mutators>>]_vars

\* C9 as stated: after a transport failure the mountpoint of the session is
\* published.
C9_TransportFailureStillPublished ==
    [][RtspFinish("fail") => mounts'[sess[rtsp.h].id] = rtsp.c]_vars

\* the closure of a live session has returned from a failed create request:
\* its sockets are provisioned and nothing is mounted
C9_FailedCreateSeen ==
    /\ rtsp.pc = "idle" /\ rtsp.resp = "fail"
    /\ \A p \in IdVals : mounts[p] = 0
    /\ \E h \in Handles : Live(h) /\ sess[h].callback_data # 0
                          /\ ~sess[h].sockets_null

(***************************************************************************)
(* Properties of provisioning (ProvisionSpec).                             *)
(***************************************************************************)
\* the closure ran the provisioning for the session of h in this step
Provisioning(h) ==
    /\ RtspBegin
    /\ Head(rtsp_async_queue) = h
    /\ sess[h].hangingup = 0
    /\ sess[h].destroyed = 0

\* C11: when the sockets of a session cannot all be provisioned (the pool is
\* exhausted or a bind fails), the failure is reported to the caller of
\* session creation as a non-zero *error and the plugin goes on running.
C11_ProvisionFailureReported ==
    [][\A h \in Handles :
         (Provisioning(h) /\ \E n \in SessSockNames : sess'[h].sockets[n].null)
             => (proc' = "running" /\ error'[h] # 0)]_vars

\* a provisioning that ran out of ports ended the process while the caller
\* of create_session had been told of no error
C11_ExhaustedProvisioningSeen ==
    /\ proc = "aborted"
    /\ \E h \in Handles :
          /\ sess[h].callback_data # 0
          /\ \E n \in SessSockNames : sess[h].sockets[n].null
          /\ ~sess[h].sockets_null
          /\ error[h] = 0

(***************************************************************************)
(* Properties of the message queue (MessageSpec).                          *)
(***************************************************************************)
\* the transactions of the events the handler pushed, in the order of the
\* event log
RECURSIVE HandledTransactions(_)
HandledTransactions(ev) ==
    IF ev = <<>> THEN <<>>
    ELSE IF Head(ev).transaction # 0
    THEN <<Head(ev).transaction>> \o HandledTransactions(Tail(ev))
    ELSE HandledTransactions(Tail(ev))

\* a sequence of numbers that grows from each entry to the next
Increasing(q) == \A i, j \in 1 .. Len(q) : i < j => q[i] < q[j]

\* C16: the handler thread takes the messages one at a time in the order
\* handle_message was called: the events of the messages appear in submission
\* order, every message still queued was submitted after all the handled
\* ones, and one turn of the handler consumes exactly the oldest queued
\* message, changes the state of that message's session only and pushes at
\* most one event, which carries that message's transaction.
C16_MessagesHandledInSubmissionOrder ==
    /\ [](/\ Increasing(HandledTransactions(events))
          /\ Increasing([i \in 1 .. Len(messages) |-> messages[i].transaction])
          /\ \A i \in 1 .. Len(messages), j \in 1 .. Len(events) :
                events[j].transaction < messages[i].transaction)
    /\ [][janus_source_handler =>
            /\ messages' = Tail(messages)
            /\ \A h \in Handles : h # Head(messages).handle => sess'[h] = sess[h]
            /\ \/ events' = events
               \/ /\ Len(events') = Len(events) + 1
                  /\ events'[Len(events')].transaction = Head(messages).transaction
                  /\ events'[Len(events')].h = Head(messages).handle]_vars

\* two messages were handled and both changed the session: the id of one and
\* the flags of the other are in force
C16_TwoMessagesHandled ==
    /\ Len(HandledTransactions(events)) = 2
    /\ \E h \in Handles :
          /\ sess[h].id # "null"
          /\ ~sess[h].audio_active
          /\ \A j \in 1 .. Len(events) :
                events[j].transaction # 0 =>
                    (events[j].h = h /\ events[j].kind = "ok")

(***************************************************************************)
(* Properties of the RTSP side (ClientSpec).                               *)
(***************************************************************************)
\* the clients that are set up on the mount point at path p
SetupClients(p) ==
    {k \in RtspClients : rtsp_clients[k].active /\ rtsp_clients[k].session = p}

\* the clients in the clients list of context c
ListedClients(c) ==
    {cbd[c].clients_list[i] : i \in 1 .. Len(cbd[c].clients_list)}

\* the session of h has a context, and its factory is mounted at the path
\* of the session's id
Published(h) ==
    LET c == sess[h].callback_data
    IN c # 0 /\ cbd[c].st = "live" /\ mounts[sess[h].id] = c

\* C17: for every published mount point, the clients list of its context
\* holds exactly the clients that are set up on the mount point.
C17_ClientsListIsSetupSet ==
    \A p \in Ids :
        (mounts[p] # 0 /\ cbd[mounts[p]].st = "live")
            => ListedClients(mounts[p]) = SetupClients(p)

\* a client that sent SETUP and then TEARDOWN is in no session of a
\* published mount point, and is still in the clients list
C17_ListedAfterTeardown ==
    \E p \in Ids, k \in RtspClients :
        /\ mounts[p] # 0
        /\ cbd[mounts[p]].st = "live"
        /\ k \in ListedClients(mounts[p])
        /\ rtsp_clients[k].session = "none"
        /\ rtsp_clients[k].nreq = 2

\* C18: after remove_mountpoint ran for a published mount point, no RTSP
\* session has media at its path, the media-configure handler of its factory
\* is disconnected, and no client has a pause-request or setup-request
\* handler of its context connected.
C18_RemoveLeavesNothingConnected ==
    [][\A t \in HostThreads, h \in Handles :
         (DestroyClose(t, h) /\ Published(h)) =>
             LET c == sess[h].callback_data
                 p == sess[h].id
             IN /\ \A k \in RtspClients : rtsp_clients'[k].session # p
                /\ ~factory_signal'[c]
                /\ \A k \in RtspClients : c \notin rtsp_clients'[k].handlers]_vars

\* a context was freed after its clients list was torn down, and the client
\* that was closed still has the handlers of the context connected
C18_HandlersOfFreedContext ==
    \E c \in CbdIds, k \in RtspClients :
        /\ cbd[c].st = "freed"
        /\ rtsp_clients[k].st = "closed"
        /\ c \in rtsp_clients[k].handlers

\* C19: when a session with a published mount point is destroyed, every
\* client that is set up on the mount point is sent a TEARDOWN for the
\* rtsp_url of the mount point and is closed, both before the factory is
\* removed, and the clients list is empty afterwards.
C19_SetupClientsTornDownOnDestroy ==
    [][\A t \in HostThreads, h \in Handles :
         (DestroyClose(t, h) /\ Published(h)) =>
             LET c == sess[h].callback_data
                 p == sess[h].id
             IN /\ cbd'[c].clients_list = <<>>
                /\ \A k \in SetupClients(p) :
                      /\ rtsp_clients'[k].st = "closed"
                      /\ \E i, j, r \in 1 .. Len(removal') :
                            /\ i < j /\ j < r
                            /\ removal'[i] = Op("teardown", k, cbd[c].rtsp_url)
                            /\ cbd[c].rtsp_url = p
                            /\ removal'[j] = Op("close", k, "null")
                            /\ removal'[r] = Op("remove_factory", 0, p)]_vars

\* a session was destroyed after a client was torn down and closed
C19_TeardownSentOnDestroy ==
    /\ \E i \in 1 .. Len(removal) : removal[i].op = "teardown"
    /\ \E k \in RtspClients : rtsp_clients[k].st = "closed"

\* the session of h was torn down: destroy_session has returned, and the
\* RTSP thread has no closure of the session left to run
TornDown(h) ==
    /\ sess[h].destroyed # 0
    /\ \A t \in HostThreads : host[t].pc = "idle"
    /\ rtsp.pc = "idle"
    /\ \A i \in 1 .. Len(rtsp_async_queue) : rtsp_async_queue[i] # h

\* C20: every socket is closed by its one owner: the pipeline closes no
\* socket it was given, no socket is closed twice, and once a session is
\* torn down every socket that was opened for it was closed exactly once,
\* whether or not a media of its mount point was ever prepared.
C20_EverySocketClosedOnceByOwner ==
    /\ proc = "running" =>
          \A c \in CbdIds, n \in AllSockNames :
              /\ socket_log[c][n].pipeline = 0
              /\ socket_log[c][n].closes <= 1
    /\ \A h \in Handles :
          (proc = "running" /\ TornDown(h)) =>
              \A c \in CbdIds, n \in AllSockNames :
                  (cbd[c].session = h /\ socket_log[c][n].opened)
                      => socket_log[c][n].closes = 1

\* a session was torn down whose sockets were given to a pipeline, and all
\* of them were closed once
C20_InjectedSocketsClosedOnce ==
    \E h \in Handles, c \in CbdIds :
        /\ TornDown(h)
        /\ cbd[c].session = h
        /\ \A n \in AllSockNames :
              socket_log[c][n].opened /\ socket_log[c][n].closes = 1
        /\ \E i \in 1 .. Len(removal) : removal[i].op = "teardown"


(***************************************************************************)
(* C21: the injection of the server sockets into a media.                  *)
(***************************************************************************)
\* C21: a media created from the factory of a mount point has been given the
\* pre-bound server sockets of the context exactly once, at the PAUSED of its
\* preparation, and has no target-state handler connected any more: neither
\* a PLAY nor a later PAUSE of a client sets the sockets again.
C21_SocketsInjectedOnceAtFirstPaused ==
    \A f \in CbdIds :
        media[f].prepared =>
            /\ media[f].injections = 1
            /\ media[f].target_state = 0
            /\ ~media[f].close_socket
            /\ cbd[f].st = "live" =>
                  /\ cbd[f].id_rtsp_media_target_state_cb = 0
                  /\ media[f].socket =
                        {n \in CbdSockNames : ~cbd[f].sockets[n].null}

\* a client has set up, played and paused a media that is still prepared: the
\* media saw PAUSED a second time
C21_PausedAgain ==
    \E k \in RtspClients :
        /\ rtsp_clients[k].st = "open"
        /\ rtsp_clients[k].state = "ready"
        /\ ~rtsp_clients[k].active
        /\ rtsp_clients[k].factory # 0
        /\ media[rtsp_clients[k].factory].prepared
        /\ media[rtsp_clients[k].factory].socket # {}

(***************************************************************************)
(* C22, C23: the shutdown of the plugin.                                   *)
(***************************************************************************)
\* the place of a step of janus_source_destroy in the order of shutdown
Rank(name) ==
    CASE name = "stopping" -> 1
      [] name = "join_handler" -> 2
      [] name = "close_session" -> 3
      [] name = "deattach_rtsp_queue" -> 4
      [] name \in {"quit_main_loop", "join_rtsp"} -> 5
      [] name \in {"join_keepalive", "remove_pid"} -> 6
      [] name = "join_watchdog" -> 7
      [] name \in {"sessions_destroy", "socket_utils_destroy"} -> 8
      [] OTHER -> 9

\* C22: janus_source_destroy does its steps in the order: stopping flag,
\* handler joined, sessions closed, RTSP queue detached, RTSP loop quit and
\* thread joined, keepalive joined and process id deleted, watchdog joined,
\* and only then the sessions map and the port pool destroyed.
C22_ShutdownStepsInOrder ==
    \A i, j \in DOMAIN shutdown :
        i < j => Rank(shutdown[i].step) <= Rank(shutdown[j].step)

\* janus_source_destroy has returned after it closed a session
C22_ShutdownCompleted ==
    /\ shutdown # <<>>
    /\ shutdown[Len(shutdown)].step = "return"
    /\ \E i \in DOMAIN shutdown : shutdown[i].step = "close_session"

\* C23: once the stopping flag is set, every plugin thread exits and
\* janus_source_destroy returns.
C23_StoppingLeadsToReturn ==
    (stopping = 1) ~>
        /\ \A th \in DOMAIN thread : thread[th] \in {"exited", "refused"}
        /\ shutdown # <<>>
        /\ shutdown[Len(shutdown)].step = "return"

\* janus_source_destroy has passed janus_source_rtsp_clean_and_quit_main_loop
\* and waits for the RTSP thread, which entered g_main_loop_run afterwards
C23_JoinOfRunningLoop ==
    /\ At("quit_main_loop")
    /\ thread.rtsp = "running"

(***************************************************************************)
(* C24: the lazy free.                                                     *)
(***************************************************************************)
\* C24: a session is freed only when it was destroyed at least WatchdogAge
\* seconds before, and every destroyed session whose age can be reached
\* within the time followed is freed in the end.
C24_FreedWhenOldEnoughAndInTheEnd ==
    /\ [][\A h \in Handles :
            sess[h].mem # "freed" /\ sess'[h].mem = "freed" =>
                /\ sess[h].destroyed # 0
                /\ now - sess[h].destroyed >= WatchdogAge]_vars
    /\ \A h \in Handles :
          (sess[h].destroyed # 0 /\ sess[h].destroyed + WatchdogAge <= MaxTime)
              ~> (sess[h].mem = "freed")

\* the watchdog has freed a session that was destroyed after the start
C24_SessionFreed ==
    \E h \in Handles :
        /\ sess[h].mem = "freed"
        /\ sess[h].destroyed > 1
        /\ old_sessions = <<>>

(***************************************************************************)
(* C25: validation errors.                                                 *)
(***************************************************************************)
\* the code the specification gives for an invalid message
ExpectedCode(m) ==
    CASE m.kind = "null" -> 411
      [] m.kind = "notobj" -> 412
      [] OTHER -> 413

\* C25: when the handler takes an invalid message of a live session from the
\* queue, it pushes exactly one event, an error event with the code of the
\* failure and the transaction of the message, and leaves the session as it
\* was: in the sessions map, not hung up, not destroyed.
C25_InvalidMessageGivesOneErrorAndKeepsSession ==
    [][(/\ messages # <<>>
        /\ messages' = Tail(messages)
        /\ Head(messages).message \in InvalidMessages
        /\ Head(messages).handle \in sessions
        /\ sess[Head(messages).handle].destroyed = 0)
       => /\ events' = Append(events,
                EventT(Head(messages).handle, Head(messages).transaction,
                       "error", ExpectedCode(Head(messages).message), FALSE))
          /\ sess' = sess
          /\ sessions' = sessions
          /\ old_sessions' = old_sessions]_vars

\* error events with two different codes were pushed to a session that is
\* still in the sessions map
C25_TwoErrorsSessionKept ==
    \E i, j \in DOMAIN events :
        /\ events[i].kind = "error" /\ events[j].kind = "error"
        /\ events[i].code = 412 /\ events[j].code = 413
        /\ events[i].h \in sessions
        /\ sess[events[i].h].destroyed = 0

(***************************************************************************)
(* Codec negotiation (SdpSpec).                                            *)
(***************************************************************************)
\* the SDP has an rtpmap line that names the codec
Declared(sdp, codec) ==
    \E i \in DOMAIN sdp.rtpmap :
        /\ sdp_codec_name_to_id(sdp.rtpmap[i].name) = codec
        /\ codec # "INVALID"

\* the payload types the rtpmap lines of the SDP give the codec
PayloadTypesOf(sdp, codec) ==
    {sdp.rtpmap[i].pt : i \in {j \in DOMAIN sdp.rtpmap :
                                 sdp_codec_name_to_id(sdp.rtpmap[j].name) = codec}}

\* C27: after the negotiation of an offer that declares a codec of the
\* priority list, codec[video] is the first codec of the list the offer
\* declares, codec_pt[video] is a payload type of that codec, and it is the
\* first payload type of the video line of the rewritten SDP.
C27_FirstDeclaredPriorityCodecIsChosen ==
    ret.op = "negotiated" =>
        \A i \in DOMAIN ret.list :
            ( /\ Declared(ret.orig, ret.list[i])
              /\ \A j \in 1 .. (i - 1) : ~Declared(ret.orig, ret.list[j]) )
            => /\ ret.codec.video = ret.list[i]
               /\ ret.codec_pt.video \in PayloadTypesOf(ret.orig, ret.list[i])
               /\ ret.sdp.video # <<>>
               /\ ret.sdp.video[1] = ret.codec_pt.video

\* priority H264,VP8 and an offer with 96 VP8 before 107 H264: H264 and 107
\* are chosen and the line lists 107 before 96
C27_H264ChosenBeforeVP8 ==
    /\ ret.op = "negotiated"
    /\ ret.list = <<"H264", "VP8">>
    /\ ret.orig.video = <<96, 107>>
    /\ ret.orig.rtpmap = <<Rtpmap(96, "VP8"), Rtpmap(107, "H264")>>
    /\ ret.codec.video = "H264"
    /\ ret.codec_pt.video = 107
    /\ ret.sdp.video = <<107, 96>>

\* C28: sdp_set_video_codec returns the SDP with the payload type of the
\* chosen codec first on the video line and the other payload types of the
\* line after it in their order, whatever the length of the line, and the
\* SDP unchanged when the codec is INVALID or its payload type is first.
C28_ChosenFirstOthersKeepOrder ==
    ret.op = "rewritten" => ret.sdp = MoveToFront(ret.orig, ret.preferred)

\* a rewrite of a line of three payload types whose third is the chosen one
C28_ThirdOfThreeChosen ==
    /\ ret.op = "rewritten"
    /\ Len(ret.orig.video) = 3
    /\ ret.preferred # "INVALID"
    /\ ret.orig.video[3] = sdp_get_codec_pt(ret.orig, ret.preferred)

\* C29: selection and rewrite applied to an SDP they have already been
\* applied to return it as it is.
C29_SecondRewriteChangesNothing ==
    (ncalls >= 2 /\ ret.op \in {"rewritten", "negotiated"}) => ret.sdp = ret.orig

\* a second rewrite of an offer the first rewrite has changed
C29_RewrittenTwice ==
    /\ ncalls = 2
    /\ ret.op = "rewritten"
    /\ ret.sdp.video # ret.offer.video

(***************************************************************************)
(* The jsep the handler answers with (OfferSpec).                          *)
(***************************************************************************)
\* the first codec of the list the SDP declares, "INVALID" for none
FirstDeclared(sdp, list) ==
    IF \E i \in DOMAIN list : Declared(sdp, list[i])
    THEN list[CHOOSE i \in DOMAIN list :
                 /\ Declared(sdp, list[i])
                 /\ \A j \in 1 .. (i - 1) : ~Declared(sdp, list[j])]
    ELSE "INVALID"

\* the SDP with the direction fixed, red, ulpfec and rtx taken out and the
\* payload type of the chosen codec first on the video line
AnswerSdp(body) ==
    LET fixed == StripFec(FixDirection(body))
    IN MoveToFront(fixed, FirstDeclared(fixed, codec_priority_list))

\* the last event pushed
LastEvent(ev) == ev[Len(ev)]

\* the step is the handler's with a message that carries a jsep; the
\* message is Head(messages).message
AnswersJsep ==
    /\ messages # <<>>
    /\ messages' = Tail(messages)
    /\ Len(events') = Len(events) + 1
    /\ LastEvent(events').jsep

\* C26: the ok event pushed for a message with a jsep carries the SDP of
\* the message with the direction fixed, ulpfec, red and rtx taken out and
\* the payload type of the chosen codec first on the video line, and the
\* type answer for an offer, offer for an answer.
C26_EventCarriesRewrittenSdp ==
    [][AnswersJsep =>
         LET m == Head(messages).message
             e == LastEvent(events')
         IN /\ e.kind = "ok"
            /\ e.type = (IF m.sdp = "offer" THEN "answer" ELSE "offer")
            /\ e.sdp = AnswerSdp(m.body)]_vars

\* the answer to the offer with VP8 on 96 before H264 on 107 was pushed and
\* H264 on 107 is the codec of the session
C26_AnswerToTwoCodecOffer ==
    \E i \in DOMAIN events :
        /\ events[i].jsep
        /\ events[i].type = "answer"
        /\ events[i].sdp.rtpmap = TwoCodecOffer.rtpmap
        /\ sess[events[i].h].codec.video = "H264"
        /\ sess[events[i].h].codec_pt.video = 107

\* handle h was answered a jsep, and every jsep it was answered has no m=
\* line
OnlyNoMediaJsep(h) ==
    /\ \E i \in DOMAIN events : events[i].h = h /\ events[i].jsep
    /\ \A i \in DOMAIN events :
          (events[i].h = h /\ events[i].jsep)
          => events[i].sdp.video = <<>> /\ events[i].sdp.audio = <<>>

\* C30: a session whose SDP has neither a video nor an audio m= line stays
\* valid, gets no pipeline and no mountpoint, and the handler pushes the ok
\* event for the message that carries the SDP.
C30_NoMediaNoPipelineNoMountpoint ==
    /\ [](\A h \in Handles :
            OnlyNoMediaJsep(h) =>
               /\ h \in sessions
               /\ sess[h].mem = "live"
               /\ sess[h].destroyed = 0
               /\ sess[h].callback_data # 0
                    => cbd[sess[h].callback_data].launch = <<>>
               /\ ~Published(h))
    /\ [][( /\ messages # <<>>
            /\ messages' = Tail(messages)
            /\ Head(messages).handle \in sessions
            /\ sess[Head(messages).handle].destroyed = 0
            /\ Head(messages).message.sdp # "absent"
            /\ Head(messages).message.body.video = <<>>
            /\ Head(messages).message.body.audio = <<>> )
          => /\ Len(events') = Len(events) + 1
             /\ LastEvent(events').kind = "ok"
             /\ LastEvent(events').transaction = Head(messages).transaction]_vars

\* the closure has run to its end for a session whose SDP has no m= line
C30_NoMediaSessionSetUp ==
    \E h \in Handles :
        /\ OnlyNoMediaJsep(h)
        /\ sess[h].callback_data # 0
        /\ cbd[sess[h].callback_data].launch = <<>>
        /\ rtsp.pc = "idle"
        /\ rtsp.resp = "ok"

(***************************************************************************)
(* Slow links (SlowLinkSpec).                                              *)
(***************************************************************************)
\* the step is a slow_link call for video on a live session of handle h
\* that is not a slow uplink of a video the session does not relay
SlowVideoLink(h) ==
    /\ sess[h].destroyed = 0
    /\ \E uplink \in BOOLEAN :
          /\ ~(uplink /\ ~sess[h].video_active)
          /\ janus_source_slow_link(h, uplink, TRUE)

\* the step relays one REMB and pushes one slow_link event for handle h,
\* both with the bitrate
RelaysAndPushes(h, bitrate) ==
    /\ relayed' = Append(relayed, [h |-> h, bitrate |-> bitrate])
    /\ Len(events') = Len(events) + 1
    /\ LastEvent(events').h = h
    /\ LastEvent(events').kind = "slow_link"
    /\ LastEvent(events').bitrate = bitrate

\* C31: a slow_link call for video sets the bitrate to half of what it was,
\* and to 64 kbps when the half is lower; the REMB relayed and the slow_link
\* event pushed carry the new bitrate; the bitrate is never below 64 kbps
\* after the call.
C31_HalvedWithFloor ==
    [][\A h \in Handles :
         SlowVideoLink(h) =>
            /\ sess[h].bitrate > 0 =>
                  sess'[h].bitrate = (IF sess[h].bitrate \div 2 < 64 * 1000
                                      THEN 64 * 1000
                                      ELSE sess[h].bitrate \div 2)
            /\ sess'[h].bitrate >= 64 * 1000
            /\ RelaysAndPushes(h, sess'[h].bitrate)]_vars

\* a session capped at 130000 was reported a slow link for video
C31_SlowLinkAt130000 ==
    \E h \in Handles :
        /\ sess[h].slowlink_count = 1
        /\ sess[h].bitrate = SlowLinkLowest
        /\ relayed = <<Remb(h, 130000), Remb(h, SlowLinkLowest)>>

\* C32: slow_link(uplink = false, video = true) on an active session with
\* bitrate 0 sets the bitrate to 256000, relays a REMB of 256000 and pushes
\* a slow_link event.
C32_FirstSlowLinkGives256000 ==
    [][\A h \in Handles :
         ( /\ sess[h].destroyed = 0
           /\ sess[h].bitrate = 0
           /\ sess[h].audio_active /\ sess[h].video_active
           /\ janus_source_slow_link(h, FALSE, TRUE) )
         => /\ sess'[h].bitrate = 256000
            /\ RelaysAndPushes(h, 256000)]_vars

\* the first slow link of a session without a cap was reported
C32_SlowLinkWithoutCap ==
    \E h \in Handles :
        /\ sess[h].slowlink_count = 1
        /\ sess[h].audio_active /\ sess[h].video_active
        /\ relayed = <<Remb(h, sess[h].bitrate)>>
        /\ events # <<>>
        /\ LastEvent(events).kind = "slow_link"
        /\ LastEvent(events).bitrate = SlowLinkStart \div 2

(***************************************************************************)
(* The process id in the registry (ShutdownSpec).                          *)
(***************************************************************************)
\* janus_source_destroy has called janus_source_remove_pid_from_registry
PidRemoved == \E i \in DOMAIN shutdown : shutdown[i].step = "remove_pid"

\* C33: on shutdown the plugin sends a DELETE to <keepalive_url>/<pid>,
\* <pid> being the process id the keepalive POSTs carry.
C33_DeleteAddressedToPid ==
    PidRemoved =>
        \E r \in DOMAIN http :
            /\ r.method = "DELETE"
            /\ r.url = KeepalivePost.url
            /\ r.id = KeepalivePost.body
            /\ http[r] > 0

\* the process id was posted and janus_source_destroy has sent its DELETE
C33_PidPostedAndRemoved ==
    /\ PidRemoved
    /\ http[KeepalivePost] > 0
    /\ http[RemovePid] = 1

(***************************************************************************)
(* Destruction against the RTSP thread (Spec).                             *)
(***************************************************************************)
\* a factory made for the session of handle h is mounted
MountedFor(h) ==
    \E p \in IdVals : mounts[p] # 0 /\ cbd[mounts[p]].session = h

\* destroy_session was called for handle h and has returned
DestroyReturned(h) ==
    /\ sess[h].destroyed # 0
    /\ \A t \in HostThreads : host[t].pc = "idle" \/ host[t].h # h

\* C34: once destroy_session has returned for a session, no mountpoint of
\* the session is published, whether its closure was waiting in the RTSP
\* queue or running when destroy_session was called.
C34_NothingPublishedAfterDestroy ==
    \A h \in Handles : DestroyReturned(h) => ~MountedFor(h)

\* destroy_session has returned while the closure of the session waits for
\* the answer of the registry
C34_DestroyedDuringClosure ==
    \E h \in Handles :
        /\ DestroyReturned(h)
        /\ rtsp.pc = "http"
        /\ rtsp.h = h


(***************************************************************************)
(* ResetupSpec: the gateway calls create_session, setup_media, hangup_media*)
(* and destroy_session on a session, setup_media up to MaxResetups times,  *)
(* over a range wide enough for MaxResetups provisionings.                 *)
(***************************************************************************)
ResetupInit ==
    /\ pp = ports_pool_init(udp_min_port, udp_min_port + ResetupWidth)
    /\ sockFails = 0
    /\ fsock = [k \in Slots |-> NoSock]
    /\ ret = NoRet
    /\ ncalls = 0
    /\ PluginInit
    /\ thread = ThreadsUp

ResetupNext ==
    \/ \E h \in Handles : janus_source_create_session(h)
    \/ \E h \in Handles : SetupMedia(h, MaxResetups)
    \/ RtspBegin
    \/ \E resp \in Responses : RtspFinish(resp)
    \/ \E t \in HostThreads, h \in Handles : HangupEnter(t, h)
    \/ \E t \in HostThreads : HangupPush(t)
    \/ \E t \in HostThreads, h \in Handles : DestroyClose(t, h)
    \/ \E t \in HostThreads : DestroyMark(t)

ResetupSpec == ResetupInit /\ [][ResetupNext]_vars

\* the sockets that can be reached from session h: those of session->sockets
\* and those of the pipeline context session->callback_data points to
ReachableSockets(h) ==
    LET s == sess[h]
    IN (IF s.mem = "live" /\ ~s.sockets_null
        THEN {s.sockets[n] : n \in SessSockNames} ELSE {})
       \cup (IF s.mem = "live" /\ s.callback_data # 0
                /\ cbd[s.callback_data].st = "live"
             THEN {cbd[s.callback_data].sockets[n] : n \in CbdSockNames}
             ELSE {})

\* the ports of the open sockets some session reaches
ReachablePorts ==
    {k.port : k \in {x \in UNION {ReachableSockets(h) : h \in Handles} :
                        ~x.null /\ x.open}}

\* C35: every port that is allocated in the pool is the port of an open
\* socket that a session reaches through session->sockets or through its
\* current pipeline context, also after a second setup_media on the session
C35_AllocatedPortsReachable ==
    proc = "running" => pp.list \subseteq ReachablePorts

\* a session was provisioned a second time and the process goes on
C35_ProvisionedTwice ==
    /\ proc = "running"
    /\ \E h \in Handles : nsetup[h] = MaxResetups /\ sess[h].callback_data # 0
    /\ rtsp_async_queue = <<>>
    /\ rtsp.pc = "idle"
    /\ Cardinality({c \in CbdIds : cbd[c].st # "unalloc"}) = MaxResetups


(***************************************************************************)
(* RenameSpec: the gateway sends messages that carry an "id" while the     *)
(* session is provisioned, published and destroyed.                        *)
(***************************************************************************)
IdMessages == {Msg("absent", "absent", -1, id, "absent") : id \in Ids}

RenameNext ==
    \/ \E h \in Handles : janus_source_create_session(h)
    \/ \E h \in Handles, m \in IdMessages : HandleMessage(h, m, MaxQueued)
    \/ janus_source_handler
    \/ \E h \in Handles : janus_source_setup_media(h)
    \/ RtspBegin
    \/ \E resp \in Responses : RtspFinish(resp)
    \/ \E t \in HostThreads, h \in Handles : DestroyClose(t, h)
    \/ \E t \in HostThreads : DestroyMark(t)

RenameSpec == Init /\ [][RenameNext]_vars

\* the step is janus_source_close_session run by destroy_session(h)
DestroyCloses(h) ==
    \E t \in HostThreads :
        host[t].pc = "idle" /\ host'[t] = [pc |-> "destroy_mark", h |-> h]

\* C36: the janus_source_close_session of destroy_session(S) removes every
\* mountpoint that holds a factory made for S and no mountpoint of another
\* session, also when a message changed S's id after the mountpoint was
\* published
C36_RemovesOwnMountpoint ==
    [][\A h \in Handles :
          (DestroyCloses(h) /\ proc' = "running") =>
             \A p \in IdVals :
                 mounts[p] # 0 =>
                    IF cbd[mounts[p]].session = h THEN mounts'[p] = 0
                    ELSE mounts'[p] = mounts[p]]_vars

\* destroy_session removed the mountpoint of the id a message gave the
\* session after its factory had been mounted under another id
C36_DestroyedAfterRename ==
    \E t \in HostThreads, p, q \in Ids :
        /\ proc = "running"
        /\ host[t].pc = "destroy_mark"
        /\ p # q
        /\ mounts[p] # 0
        /\ cbd[mounts[p]].session = host[t].h
        /\ cbd[mounts[p]].id = p
        /\ Op("remove_factory", 0, q) \in {removal[i] : i \in DOMAIN removal}


(***************************************************************************)
(* LazyFreeSpec: the watchdog and the clock next to the RTSP thread.  The  *)
(* gateway makes no call on a handle whose session was freed.              *)
(***************************************************************************)
LazyFreeNext ==
    \/ \E h \in Handles : janus_source_create_session(h)
    \/ \E h \in Handles : sess[h].mem = "live" /\ janus_source_setup_media(h)
    \/ RtspBegin
    \/ \E resp \in Responses : RtspFinish(resp)
    \/ \E t \in HostThreads, h \in Handles :
          sess[h].mem = "live" /\ DestroyClose(t, h)
    \/ \E t \in HostThreads : DestroyMark(t)
    \/ Tick
    \/ janus_source_watchdog

LazyFreeSpec == Init /\ [][LazyFreeNext]_vars

\* the step takes a closure from the RTSP queue and runs it up to the POST
ClosureStarts ==
    /\ rtsp.pc = "idle"
    /\ rtsp_async_queue # <<>>
    /\ rtsp_async_queue' = Tail(rtsp_async_queue)

\* the step is the rest of the closure, after curl_request returned
ClosureResumes == rtsp.pc = "http" /\ rtsp'.pc = "idle"

\* the step is the part of a host callback that thread t runs on the session
\* it was called with
HostResumes(t) == host[t].pc # "idle" /\ host'[t].pc = "idle"

\* C37: no closure of the RTSP queue and no host callback runs on a session
\* that the watchdog has freed
C37_NoUseAfterFree ==
    [][/\ ClosureStarts => sess[Head(rtsp_async_queue)].mem # "freed"
       /\ ClosureResumes => sess[rtsp.h].mem # "freed"
       /\ \A t \in HostThreads :
             HostResumes(t) => sess[host[t].h].mem # "freed"]_vars

\* the watchdog freed a session whose closure is still waiting in the queue
C37_ClosureWaitsForFreedSession ==
    /\ proc = "running"
    /\ rtsp.pc = "idle"
    /\ rtsp_async_queue # <<>>
    /\ sess[Head(rtsp_async_queue)].mem = "freed"


(***************************************************************************)
(* QueueLive: janus_source_init has returned, the RTSP thread was created  *)
(* and starts at some moment; the gateway creates a session and calls      *)
(* setup_media on it; the plugin is not shut down.  The RTSP thread is     *)
(* scheduled fairly and the registry answers every POST.                   *)
(***************************************************************************)
StartupInit ==
    /\ pp = ports_pool_init(udp_min_port, udp_min_port + ResetupWidth)
    /\ sockFails \in 0 .. MaxSockFailures
    /\ fsock = [k \in Slots |-> NoSock]
    /\ ret = NoRet
    /\ ncalls = 0
    /\ PluginInit
    /\ thread = [ThreadsUp EXCEPT !.rtsp = "start"]

\* the main loop of the RTSP thread dispatches the queue source
Dispatch ==
    /\ thread.rtsp = "running"
    /\ \/ RtspBegin
       \/ \E resp \in Responses : RtspFinish(resp)

StartupNext ==
    \/ \E h \in Handles : janus_source_create_session(h)
    \/ \E h \in Handles : SetupMedia(h, MaxResetups)
    \/ Dispatch
    \/ janus_source_rtsp_server_thread

QueueLive ==
    /\ StartupInit
    /\ [][StartupNext]_vars
    /\ WF_vars(Dispatch)
    /\ WF_vars(janus_source_rtsp_server_thread)

\* setup_media was let through for handle h: the plugin is initialized and
\* not stopping and the session is not destroyed
SetupAccepted(h) == nsetup'[h] = nsetup[h] + 1

\* C38: every setup_media call that is let through while the plugin is
\* initialized and not stopping puts one closure on the RTSP queue and
\* leaves the process running, a closure leaves the queue only when the RTSP
\* thread starts to run it, and every closure in the queue is eventually run
C38_ClosuresRunExactlyOnce ==
    /\ [][/\ \A h \in Handles :
                SetupAccepted(h) =>
                   /\ rtsp_async_queue' = Append(rtsp_async_queue, h)
                   /\ proc' = "running"
          /\ rtsp_async_queue' # rtsp_async_queue =>
                \/ \E h \in Handles : SetupAccepted(h)
                \/ ClosureStarts /\ rtsp'.h \in {0, Head(rtsp_async_queue)}]_vars
    /\ \A k \in 1 .. MaxResetups :
          (Len(rtsp_async_queue) >= k) ~> (Len(rtsp_async_queue) < k)

\* setup_media was called before the RTSP thread had made its queue, and the
\* process goes on
C38_PushedBeforeQueueExists ==
    /\ proc = "running"
    /\ thread.rtsp = "running"
    /\ \E h \in Handles : nsetup[h] > 0
    /\ rtsp_async_queue = <<>>
    /\ rtsp.pc = "idle"
    /\ \A c \in CbdIds : cbd[c].st = "unalloc"
    /\ \A h \in Handles : sess[h].hangingup = 0 /\ sess[h].destroyed = 0


(***************************************************************************)
(* The counter of the pool against its list (FactorySpec).                 *)
(***************************************************************************)
\* C39: the in-use counter of the pool is the number of ports in its list
\* and is not negative, whatever sockets were opened and closed
C39_CountIsListLength ==
    pp.count = Cardinality(pp.list) /\ pp.count >= 0

\* a client socket was closed while the server socket it was connected to
\* is open: the close released the server's port
C39_ClientClosedBeforeServer ==
    /\ ret.op = "close"
    /\ \E k \in Slots :
          /\ ~fsock[k].null /\ fsock[k].open /\ ~fsock[k].is_client
          /\ fsock[k].port \notin pp.list


(***************************************************************************)
(* The lazy-free list against repeated destroy_session calls (WatchdogSpec)*)
(***************************************************************************)
\* the number of entries of old_sessions that are the session of handle h
Listings(h) ==
    Cardinality({i \in DOMAIN old_sessions : old_sessions[i] = h})

\* C40: a session is on the lazy-free list at most once and not in the
\* sessions map while it is there; it is put on the list only by the first
\* destroy_session that marks it, which takes it out of the map; it leaves
\* the list only when the watchdog frees it, and a freed session is never
\* listed or freed again
C40_ListedOnceFreedOnce ==
    /\ [](\A h \in Handles :
             /\ Listings(h) <= 1
             /\ Listings(h) = 1 => (h \notin sessions /\ sess[h].destroyed # 0)
             /\ DestroyReturned(h) =>
                   (h \notin sessions /\ (Listings(h) = 1 \/ sess[h].mem = "freed")))
    /\ [][\A h \in Handles :
             /\ Listings(h)' > Listings(h) =>
                   /\ sess[h].mem = "live" /\ sess[h].destroyed = 0
                   /\ h \in sessions /\ h \notin sessions'
             /\ Listings(h)' < Listings(h) =>
                   sess[h].mem = "live" /\ sess'[h].mem = "freed"]_vars

\* a second destroy_session call is about to test a session that the first
\* one has marked and the watchdog has not freed
C40_SecondDestroyOnMarkedSession ==
    \E t \in HostThreads :
        /\ proc = "running"
        /\ host[t].pc = "destroy_mark"
        /\ sess[host[t].h].mem = "live"
        /\ sess[host[t].h].destroyed # 0
        /\ Listings(host[t].h) = 1
=============================================================================
